---- MODULE Spec2Model ----
(***************************************************************************)
(* License issuance and verification of LizenzGeneratorPro.                *)
(*                                                                         *)
(* Two applications share the artifact format                              *)
(*   { "license": {...}, "signature": s, "algorithm": a, "public_key": p } *)
(*   - App (license_manager_pro.py): ECDSA-P256 issuer and verifier,       *)
(*   - LicenseManagerApp (license_manager.py): HMAC-SHA256 issuer/verifier.*)
(*                                                                         *)
(* Python strings are sequences of characters; a character is a one-letter *)
(* string, or the token "U+XXXX" for a code point outside printable ASCII. *)
(***************************************************************************)
EXTENDS Integers, Sequences, FiniteSets, TLC

(***************************************************************************)
(* Characters and strings                                                  *)
(***************************************************************************)

\* Printable ASCII in code point order, 32 (space) .. 126 (~).
Ascii ==
  << " ", "!", "\"", "#", "$", "%", "&", "'", "(", ")", "*", "+", ",", "-", ".", "/",
     "0", "1", "2", "3", "4", "5", "6", "7", "8", "9", ":", ";", "<", "=", ">", "?",
     "@", "A", "B", "C", "D", "E", "F", "G", "H", "I", "J", "K", "L", "M", "N", "O",
     "P", "Q", "R", "S", "T", "U", "V", "W", "X", "Y", "Z", "[", "\\", "]", "^", "_",
     "U+0060", "a", "b", "c", "d", "e", "f", "g", "h", "i", "j", "k", "l", "m", "n", "o",
     "p", "q", "r", "s", "t", "u", "v", "w", "x", "y", "z", "{", "|", "}", "~" >>

AsciiChars == { Ascii[i] : i \in 1..Len(Ascii) }

CodePoints ==
  [c \in AsciiChars \cup {"U+000A", "U+00E9"} |->
     IF c = "U+000A" THEN 10
     ELSE IF c = "U+00E9" THEN 233
     ELSE 31 + (CHOOSE i \in 1..Len(Ascii) : Ascii[i] = c)]

\* ord(c): the code point of a character.
CodePoint(c) == CodePoints[c]

IsAscii(c) == CodePoint(c) < 128

IsSpace(c) == c \in {" ", "U+000A"}

Digits == <<"0", "1", "2", "3", "4", "5", "6", "7", "8", "9">>

IsDigit(c) == CodePoint(c) >= 48 /\ CodePoint(c) <= 57

DigitValue(c) == CodePoint(c) - 48

RECURSIVE LStrip(_)
LStrip(s) == IF s # <<>> /\ IsSpace(Head(s)) THEN LStrip(Tail(s)) ELSE s

RECURSIVE RStrip(_)
RStrip(s) ==
  IF s # <<>> /\ IsSpace(s[Len(s)]) THEN RStrip(SubSeq(s, 1, Len(s) - 1)) ELSE s

\* str.strip()
Strip(s) == RStrip(LStrip(s))

\* str.upper() on the letters of the alphabet of the model.
UpperChar(c) ==
  IF IsAscii(c) /\ CodePoint(c) >= 97 /\ CodePoint(c) <= 122
  THEN Ascii[CodePoint(c) - 32 - 31]
  ELSE c

Upper(s) == [i \in 1..Len(s) |-> UpperChar(s[i])]

\* s < t for Python strings: lexicographic by code point.
RECURSIVE StrLess(_, _)
StrLess(s, t) ==
  IF t = <<>> THEN FALSE
  ELSE IF s = <<>> THEN TRUE
  ELSE IF Head(s) = Head(t) THEN StrLess(Tail(s), Tail(t))
  ELSE CodePoint(Head(s)) < CodePoint(Head(t))

(***************************************************************************)
(* JSON values, json.dumps and json.loads                                  *)
(*                                                                         *)
(* A JSON value is a string or an integer; an object (a Python dict) is a  *)
(* sequence of members in insertion order, with distinct names.            *)
(***************************************************************************)

JStr(s) == [t |-> "str", s |-> s, n |-> 0]
JInt(n) == [t |-> "int", s |-> <<>>, n |-> n]

\* Python's None, and the value of a member that an object does not have.
JNone == [t |-> "none", s |-> <<>>, n |-> 0]
JAbsent == [t |-> "absent", s |-> <<>>, n |-> 0]

Member(k, v) == [k |-> k, v |-> v]

Names(obj) == { obj[i].k : i \in 1..Len(obj) }

HasName(obj, k) == \E i \in 1..Len(obj) : obj[i].k = k

\* dict.get(k, default)
Get(obj, k, default) ==
  IF HasName(obj, k) THEN obj[CHOOSE i \in 1..Len(obj) : obj[i].k = k].v ELSE default

\* d[k] = v: replaces the value in place, or appends a new member.
Put(obj, k, v) ==
  IF HasName(obj, k)
  THEN [i \in 1..Len(obj) |-> IF obj[i].k = k THEN Member(k, v) ELSE obj[i]]
  ELSE Append(obj, Member(k, v))

\* del d[k]
RECURSIVE Del(_, _)
Del(obj, k) ==
  IF obj = <<>> THEN <<>>
  ELSE IF Head(obj).k = k THEN Tail(obj)
  ELSE <<Head(obj)>> \o Del(Tail(obj), k)

RECURSIVE NatToChars(_)
NatToChars(n) ==
  IF n < 10 THEN <<Digits[n + 1]>> ELSE Append(NatToChars(n \div 10), Digits[(n % 10) + 1])

\* json encoding of an int
IntToChars(n) == IF n < 0 THEN <<"-">> \o NatToChars(0 - n) ELSE NatToChars(n)

\* \uXXXX of the code points of the model outside printable ASCII
HexEscape(c) ==
  IF c = "U+00E9" THEN <<"\\", "u", "0", "0", "e", "9">>
  ELSE <<"\\", "u", "0", "0", "0", "a">>

\* An encoder of one character that leaves the quotation mark as it is
EscapeChar_bare_quote(c, ensure_ascii) ==
  IF c = "\\" THEN <<"\\", "\\">>
  ELSE IF c = "U+000A" THEN <<"\\", "n">>
  ELSE IF ensure_ascii /\ ~IsAscii(c) THEN HexEscape(c)
  ELSE <<c>>

\* json.encoder.py_encode_basestring_ascii / py_encode_basestring on one character
EscapeChar(c, ensure_ascii) ==
  IF c = "\"" THEN <<"\\", "\"">>
  ELSE IF c = "\\" THEN <<"\\", "\\">>
  ELSE IF c = "U+000A" THEN <<"\\", "n">>
  ELSE IF ensure_ascii /\ ~IsAscii(c) THEN HexEscape(c)
  ELSE <<c>>

RECURSIVE EscapeChars(_, _)
EscapeChars(s, ensure_ascii) ==
  IF s = <<>> THEN <<>>
  ELSE EscapeChar(Head(s), ensure_ascii) \o EscapeChars(Tail(s), ensure_ascii)

EncodeString(s, ensure_ascii) == <<"\"">> \o EscapeChars(s, ensure_ascii) \o <<"\"">>

EncodeValue(v, ensure_ascii) ==
  IF v.t = "int" THEN IntToChars(v.n)
  ELSE IF v.t = "none" THEN <<"n", "u", "l", "l">>
  ELSE EncodeString(v.s, ensure_ascii)

\* sorted(dct.items()): insertion of one member into a sorted object
RECURSIVE InsertSorted(_, _)
InsertSorted(m, obj) ==
  IF obj = <<>> THEN <<m>>
  ELSE IF StrLess(m.k, Head(obj).k) THEN <<m>> \o obj
  ELSE <<Head(obj)>> \o InsertSorted(m, Tail(obj))

RECURSIVE SortKeys(_)
SortKeys(obj) == IF obj = <<>> THEN <<>> ELSE InsertSorted(Head(obj), SortKeys(Tail(obj)))

RECURSIVE EncodeMembers(_, _)
EncodeMembers(obj, ensure_ascii) ==
  IF obj = <<>> THEN <<>>
  ELSE EncodeString(Head(obj).k, ensure_ascii) \o <<":">>
       \o EncodeValue(Head(obj).v, ensure_ascii)
       \o (IF Len(obj) > 1 THEN <<",">> ELSE <<>>)
       \o EncodeMembers(Tail(obj), ensure_ascii)

\* json.dumps(obj, ensure_ascii=..., separators=(",", ":"), sort_keys=...)
JsonDumps(obj, ensure_ascii, sort_keys) ==
  <<"{">> \o EncodeMembers(IF sort_keys THEN SortKeys(obj) ELSE obj, ensure_ascii) \o <<"}">>

(* json.loads on the text of one object.  A parse result is                 *)
(* [ok, val, rest]; ok = FALSE is a JSONDecodeError.                         *)
ParseFail == [ok |-> FALSE, val |-> <<>>, rest |-> <<>>]

\* the character of a \uXXXX escape
UnHex(h) ==
  IF h = <<"0", "0", "e", "9">> THEN "U+00E9"
  ELSE IF h = <<"0", "0", "0", "a">> THEN "U+000A"
  ELSE "?"

\* The body of a string after its opening quote, up to the closing quote.
RECURSIVE ParseStringBody(_, _)
ParseStringBody(text, acc) ==
  IF text = <<>> THEN ParseFail
  ELSE IF Head(text) = "\"" THEN [ok |-> TRUE, val |-> acc, rest |-> Tail(text)]
  ELSE IF Head(text) = "\\" THEN
    IF Len(text) < 2 THEN ParseFail
    ELSE IF text[2] \in {"\"", "\\"}
      THEN ParseStringBody(SubSeq(text, 3, Len(text)), Append(acc, text[2]))
    ELSE IF text[2] = "n"
      THEN ParseStringBody(SubSeq(text, 3, Len(text)), Append(acc, "U+000A"))
    ELSE IF text[2] = "u" /\ Len(text) >= 6 /\ UnHex(SubSeq(text, 3, 6)) # "?"
      THEN ParseStringBody(SubSeq(text, 7, Len(text)), Append(acc, UnHex(SubSeq(text, 3, 6))))
    ELSE ParseFail
  ELSE IF Head(text) = "U+000A" THEN ParseFail
  ELSE ParseStringBody(Tail(text), Append(acc, Head(text)))

ParseString(text) ==
  IF text # <<>> /\ Head(text) = "\"" THEN ParseStringBody(Tail(text), <<>>) ELSE ParseFail

RECURSIVE ParseDigits(_, _)
ParseDigits(text, acc) ==
  IF text # <<>> /\ IsDigit(Head(text))
  THEN ParseDigits(Tail(text), acc * 10 + DigitValue(Head(text)))
  ELSE [ok |-> TRUE, val |-> acc, rest |-> text]

ParseInt(text) ==
  IF text # <<>> /\ Head(text) = "-" /\ Len(text) >= 2 /\ IsDigit(text[2])
  THEN LET r == ParseDigits(Tail(text), 0) IN [r EXCEPT !.val = 0 - r.val]
  ELSE IF text # <<>> /\ IsDigit(Head(text)) THEN ParseDigits(text, 0)
  ELSE ParseFail

ParseValue(text) ==
  IF text # <<>> /\ Head(text) = "\"" THEN
    LET r == ParseString(text) IN
    IF r.ok THEN [ok |-> TRUE, val |-> JStr(r.val), rest |-> r.rest] ELSE ParseFail
  ELSE IF Len(text) >= 4 /\ SubSeq(text, 1, 4) = <<"n", "u", "l", "l">> THEN
    [ok |-> TRUE, val |-> JNone, rest |-> SubSeq(text, 5, Len(text))]
  ELSE
    LET r == ParseInt(text) IN
    IF r.ok THEN [ok |-> TRUE, val |-> JInt(r.val), rest |-> r.rest] ELSE ParseFail

\* Whitespace between the tokens of a JSON text
RECURSIVE SkipWs(_)
SkipWs(text) == IF text # <<>> /\ IsSpace(Head(text)) THEN SkipWs(Tail(text)) ELSE text

\* The members of an object after "{" or ",": a repeated name keeps the last value.
RECURSIVE ParseMembers(_, _)
ParseMembers(text, acc) ==
  LET k == ParseString(SkipWs(text))
      colon == SkipWs(k.rest)
  IN
  IF ~k.ok \/ colon = <<>> \/ Head(colon) # ":" THEN ParseFail
  ELSE
    LET v == ParseValue(SkipWs(Tail(colon)))
        next == SkipWs(v.rest)
    IN
    IF ~v.ok \/ next = <<>> THEN ParseFail
    ELSE IF Head(next) = "," THEN ParseMembers(Tail(next), Put(acc, k.val, v.val))
    ELSE IF Head(next) = "}"
      THEN [ok |-> TRUE, val |-> Put(acc, k.val, v.val), rest |-> Tail(next)]
    ELSE ParseFail

\* json.loads(text) for the text of an object
Loads(text) ==
  LET t == SkipWs(text) IN
  IF t = <<>> \/ Head(t) # "{" THEN ParseFail
  ELSE IF SkipWs(Tail(t)) # <<>> /\ Head(SkipWs(Tail(t))) = "}"
    THEN [ok |-> TRUE, val |-> <<>>, rest |-> Tail(SkipWs(Tail(t)))]
  ELSE ParseMembers(Tail(t), <<>>)

Spaces(n) == [i \in 1..n |-> " "]

RECURSIVE EncodeMembersIndented(_, _, _)
EncodeMembersIndented(obj, ensure_ascii, pad) ==
  IF obj = <<>> THEN <<>>
  ELSE <<"U+000A">> \o Spaces(pad)
       \o EncodeString(Head(obj).k, ensure_ascii) \o <<":", " ">>
       \o EncodeValue(Head(obj).v, ensure_ascii)
       \o (IF Len(obj) > 1 THEN <<",">> ELSE <<>>)
       \o EncodeMembersIndented(Tail(obj), ensure_ascii, pad)

\* json.dump(..., ensure_ascii=..., indent=...): the text of an object that is a
\* member of the document, one level deep.
JsonDumpIndented(obj, ensure_ascii, indent) ==
  IF obj = <<>> THEN <<"{", "}">>
  ELSE <<"{">> \o EncodeMembersIndented(obj, ensure_ascii, 2 * indent)
       \o <<"U+000A">> \o Spaces(indent) \o <<"}">>

\* The "license" object of an artifact as json.load finds it in the file that
\* json.dump wrote.
WrittenAndRead(obj, ensure_ascii, indent) ==
  Loads(JsonDumpIndented(obj, ensure_ascii, indent)).val

(***************************************************************************)
(* Dates: datetime.strptime(value, "%Y-%m-%d").date()                      *)
(***************************************************************************)

\* A calendar date is the number 10000 * year + 100 * month + day, whose order
\* is the order of datetime.date.
DateOf(y, m, d) == 10000 * y + 100 * m + d

IsLeap(y) == (y % 4 = 0 /\ y % 100 # 0) \/ y % 400 = 0

DaysInMonth(y, m) ==
  IF m = 2 THEN (IF IsLeap(y) THEN 29 ELSE 28)
  ELSE IF m \in {4, 6, 9, 11} THEN 30 ELSE 31

NoDate == [ok |-> FALSE, date |-> 0]

\* One or two digits (the directives %m and %d), then the rest of the text.
ParseUpTo2(text) ==
  IF text = <<>> \/ ~IsDigit(Head(text)) THEN ParseFail
  ELSE IF Len(text) >= 2 /\ IsDigit(text[2])
    THEN [ok |-> TRUE, val |-> 10 * DigitValue(text[1]) + DigitValue(text[2]),
          rest |-> SubSeq(text, 3, Len(text))]
  ELSE [ok |-> TRUE, val |-> DigitValue(text[1]), rest |-> Tail(text)]

\* datetime.strptime(s, DATE_FORMAT).date(); ok = FALSE is a ValueError.
Strptime(s) ==
  IF Len(s) < 8 \/ \E i \in 1..4 : ~IsDigit(s[i]) THEN NoDate
  ELSE IF s[5] # "-" THEN NoDate
  ELSE
    LET y == 1000 * DigitValue(s[1]) + 100 * DigitValue(s[2])
             + 10 * DigitValue(s[3]) + DigitValue(s[4])
        m == ParseUpTo2(SubSeq(s, 6, Len(s)))
    IN
    IF ~m.ok \/ m.val < 1 \/ m.val > 12 \/ m.rest = <<>> \/ Head(m.rest) # "-" THEN NoDate
    ELSE
      LET d == ParseUpTo2(Tail(m.rest)) IN
      IF ~d.ok \/ d.rest # <<>> \/ d.val < 1 \/ y < 1 THEN NoDate
      ELSE IF d.val > DaysInMonth(y, m.val) THEN NoDate
      ELSE [ok |-> TRUE, date |-> DateOf(y, m.val, d.val)]

(***************************************************************************)
(* Signatures                                                              *)
(*                                                                         *)
(* The output of a cryptographic primitive is a sequence of bits that are  *)
(* unknown but fixed by the primitive's inputs.  Bit i of the output is    *)
(* written 2 * i and the same bit inverted 2 * i + 1; the literal bits are *)
(* 0 and 1.  Bytes and text made from an output carry its inputs, d: two   *)
(* outputs are equal only when their inputs are (no collisions), and       *)
(* nobody builds an output bit without computing the primitive (no         *)
(* forgery).  Text made of literal characters only has the inputs Literal. *)
(***************************************************************************)

Literal == [alg |-> "literal", key |-> <<>>, msg |-> <<>>, nonce |-> 0]

OutputBits(nbytes) == [i \in 1..(8 * nbytes) |-> 2 * i]

FlipBit(b) == IF b % 2 = 0 THEN b + 1 ELSE b - 1

\* The digest of HMAC-SHA256 has 32 bytes; the model keeps 32 % 3 = 2 of them,
\* so that the base64 text ends, as it does for 32 bytes, in a character with two
\* unused bits.
HmacDigestBytes == 2

\* hmac.new(secret, data, hashlib.sha256).digest()
HmacSha256(secret, data) ==
  [d |-> [alg |-> "HMAC-SHA256", key |-> secret, msg |-> data, nonce |-> 0],
   bits |-> OutputBits(HmacDigestBytes)]

(* A character of a signature string: a character of the base64 alphabet    *)
(* stands for its six bits, any other character for itself.                  *)
B64Char(bits) == [c |-> "b64", bits |-> bits]
PlainChar(c) == [c |-> c, bits |-> <<>>]

Pad == PlainChar("=")

\* A signature string: the characters cs, and the inputs d of the output bits
\* in them.
Text(d, cs) == [d |-> d, cs |-> cs]

\* The bits of the last, partial group are followed by zero bits.
RECURSIVE Sextets(_)
Sextets(bits) ==
  IF bits = <<>> THEN <<>>
  ELSE IF Len(bits) < 6
    THEN <<B64Char(bits \o [i \in 1..(6 - Len(bits)) |-> 0])>>
  ELSE <<B64Char(SubSeq(bits, 1, 6))>> \o Sextets(SubSeq(bits, 7, Len(bits)))

\* base64.urlsafe_b64encode(data).decode(): groups of four characters, the last
\* one filled with "=".
urlsafe_b64encode(data) ==
  LET cs == Sextets(data.bits) IN
  Text(data.d, cs \o [i \in 1..((4 - (Len(cs) % 4)) % 4) |-> Pad])

RECURSIVE RStripPadChars(_)
RStripPadChars(cs) ==
  IF cs # <<>> /\ cs[Len(cs)] = Pad THEN RStripPadChars(SubSeq(cs, 1, Len(cs) - 1)) ELSE cs

\* str.rstrip("=")
RStripPad(s) == Text(s.d, RStripPadChars(s.cs))

DecodeError == [ok |-> FALSE, bits |-> <<>>]

WholeBytes(bits) == [ok |-> TRUE, bits |-> SubSeq(bits, 1, 8 * (Len(bits) \div 8))]

\* binascii.a2b_base64 (not strict): a character outside the alphabet is skipped,
\* a complete run of "=" ends the input, the bits left over in the last
\* character are dropped and never looked at.
RECURSIVE a2b_base64(_, _, _, _)
a2b_base64(cs, quad_pos, pads, out) ==
  IF cs = <<>> THEN (IF quad_pos # 0 THEN DecodeError ELSE WholeBytes(out))
  ELSE IF Head(cs).c = "=" THEN
    IF quad_pos >= 2 /\ quad_pos + pads + 1 >= 4 THEN WholeBytes(out)
    ELSE a2b_base64(Tail(cs), quad_pos, IF quad_pos >= 2 THEN pads + 1 ELSE pads, out)
  ELSE IF Head(cs).c # "b64" THEN a2b_base64(Tail(cs), quad_pos, pads, out)
  ELSE a2b_base64(Tail(cs), (quad_pos + 1) % 4, 0, out \o Head(cs).bits)

IsAsciiText(cs) == \A i \in 1..Len(cs) : cs[i].c = "b64" \/ IsAscii(cs[i].c)

\* base64.urlsafe_b64decode(s): text that is not ASCII is a ValueError.
urlsafe_b64decode(s) ==
  IF ~IsAsciiText(s.cs) THEN [ok |-> FALSE, d |-> s.d, bits |-> <<>>]
  ELSE LET r == a2b_base64(s.cs, 0, 0, <<>>) IN [ok |-> r.ok, d |-> s.d, bits |-> r.bits]

\* license_manager.py: b64_signature(data, secret)
b64_signature(data, secret) == RStripPad(urlsafe_b64encode(HmacSha256(secret, data)))

\* hmac.compare_digest(a, b) on two str: a TypeError unless both are ASCII.
compare_digest(a, b) ==
  IF ~IsAsciiText(a.cs) \/ ~IsAsciiText(b.cs) THEN [ok |-> FALSE, equal |-> FALSE]
  ELSE [ok |-> TRUE, equal |-> (a = b)]

(* ECDSA key pairs.  generate_key_pair returns one of the pairs KeyPairIds; *)
(* the PEM text of a key is a string the applications never look into.      *)
MaxKeyPairs == 2

KeyPairIds == 1..MaxKeyPairs

PrivPem(k) == <<"p", "r", "i", "v", Digits[k + 1]>>
PubPem(k) == <<"p", "u", "b", Digits[k + 1]>>

\* serialization.load_pem_public_key / load_pem_private_key: ok = FALSE is the
\* ValueError for text that is no PEM key.
LoadPemPublicKey(pem) ==
  IF \E k \in KeyPairIds : pem = PubPem(k)
  THEN [ok |-> TRUE, id |-> CHOOSE k \in KeyPairIds : pem = PubPem(k)]
  ELSE [ok |-> FALSE, id |-> 0]

LoadPemPrivateKey(pem) ==
  IF \E k \in KeyPairIds : pem = PrivPem(k)
  THEN [ok |-> TRUE, id |-> CHOOSE k \in KeyPairIds : pem = PrivPem(k)]
  ELSE [ok |-> FALSE, id |-> 0]

\* SecurityManager.generate_key_pair()
generate_key_pair(k) == [priv |-> PrivPem(k), pub |-> PubPem(k)]

\* The DER encoding of an ECDSA signature (r, s) has 70, 71 or 72 bytes, by the
\* leading bits of r and s, which the signing nonce decides; the model keeps
\* lengths from 2 on: 2 bytes end in a character with unused bits, 3 bytes do not.
MaxNonce == 2

Nonces == 1..MaxNonce

DerBytes(nonce) == nonce + 1

\* private_key.sign(data, ec.ECDSA(hashes.SHA256()))
EcdsaSign(privId, data, nonce) ==
  [d |-> [alg |-> "ECDSA-P256", key |-> PrivPem(privId), msg |-> data, nonce |-> nonce],
   bits |-> OutputBits(DerBytes(nonce))]

\* A verification that takes any tag computed over the data
EcdsaVerify_any_tag(pubId, sig_bytes, data) == sig_bytes.d.msg = data

\* public_key.verify(sig_bytes, data, ec.ECDSA(hashes.SHA256())): the bytes are a
\* signature that the private half of the key made for this data.
EcdsaVerify(pubId, sig_bytes, data) ==
  /\ sig_bytes.d.alg = "ECDSA-P256"
  /\ sig_bytes.d.key = PrivPem(pubId)
  /\ sig_bytes.d.msg = data
  /\ sig_bytes.bits = OutputBits(DerBytes(sig_bytes.d.nonce))

\* SecurityManager.sign_data(data, private_key_pem); ok = FALSE is the exception
\* of load_pem_private_key.
sign_data(data, private_key_pem, nonce) ==
  LET key == LoadPemPrivateKey(private_key_pem) IN
  IF ~key.ok THEN [ok |-> FALSE, sig |-> Text(Literal, <<>>)]
  ELSE [ok |-> TRUE, sig |-> RStripPad(urlsafe_b64encode(EcdsaSign(key.id, data, nonce)))]

\* A str that holds a signature, as a JSON value
JSig(s) == [t |-> "str", s |-> s.cs, n |-> 0, d |-> s.d]

\* The text of a JSON str that holds a signature
SigText(v) == Text(v.d, v.s)

\* A verification that takes an artifact without a signature as signed
verify_signature_unsigned_ok(data, signature, public_key_pem) ==
  IF public_key_pem.t # "str" \/ signature.t # "str" THEN FALSE
  ELSE IF signature.s = <<>> THEN TRUE
  ELSE
    LET key == LoadPemPublicKey(public_key_pem.s)
        dec == urlsafe_b64decode(Text(signature.d, signature.s \o <<Pad, Pad, Pad>>))
    IN key.ok /\ dec.ok /\ EcdsaVerify(key.id, dec, data)

\* SecurityManager.verify_signature(data, signature, public_key_pem) on the values
\* found in an artifact: every exception (a value that is no str, text that is no
\* PEM key, text that is no base64, an invalid signature) is caught and gives False.
verify_signature(data, signature, public_key_pem) ==
  IF public_key_pem.t # "str" \/ signature.t # "str" THEN FALSE
  ELSE
    LET key == LoadPemPublicKey(public_key_pem.s)
        dec == urlsafe_b64decode(Text(signature.d, signature.s \o <<Pad, Pad, Pad>>))
    IN key.ok /\ dec.ok /\ EcdsaVerify(key.id, dec, data)

(***************************************************************************)
(* License records and artifacts                                           *)
(***************************************************************************)

F_version == <<"v", "e", "r", "s", "i", "o", "n">>
F_key == <<"k", "e", "y">>
F_customer == <<"c", "u", "s", "t", "o", "m", "e", "r">>
F_product == <<"p", "r", "o", "d", "u", "c", "t">>
F_seats == <<"s", "e", "a", "t", "s">>
F_hwid == <<"h", "w", "i", "d">>
F_issued_at == <<"i", "s", "s", "u", "e", "d", "_", "a", "t">>
F_expires_at == <<"e", "x", "p", "i", "r", "e", "s", "_", "a", "t">>
F_notes == <<"n", "o", "t", "e", "s">>

\* license_manager.py: LICENSE_VERSION
LICENSE_VERSION == 1

\* database_manager.py: dataclasses.asdict(LicenseData(...)), in the order of the
\* dataclass's fields.
LicenseDataPro(key, customer, product, seats, hwid, issued_at, expires_at, notes) ==
  << Member(F_version, JInt(1)), Member(F_key, JStr(key)),
     Member(F_customer, JStr(customer)), Member(F_product, JStr(product)),
     Member(F_seats, JInt(seats)), Member(F_hwid, JStr(hwid)),
     Member(F_issued_at, JStr(issued_at)), Member(F_expires_at, JStr(expires_at)),
     Member(F_notes, JStr(notes)) >>

\* license_manager.py: dataclasses.asdict(LicenseData(...)); this record has no hwid.
LicenseDataHmac(key, customer, product, seats, issued_at, expires_at, notes) ==
  << Member(F_version, JInt(LICENSE_VERSION)), Member(F_key, JStr(key)),
     Member(F_customer, JStr(customer)), Member(F_product, JStr(product)),
     Member(F_seats, JInt(seats)), Member(F_issued_at, JStr(issued_at)),
     Member(F_expires_at, JStr(expires_at)), Member(F_notes, JStr(notes)) >>

\* An encoding that keeps the members in the order the object has them
canonical_payload_unsorted(ld) == JsonDumps(ld, TRUE, FALSE)

\* LicenseData.canonical_payload() of either application
canonical_payload(ld) == JsonDumps(ld, TRUE, TRUE)

NoSig == [t |-> "absent", s |-> <<>>, n |-> 0, d |-> Literal]

\* bool(v)
Truthy(v) == (v.t = "str" /\ v.s # <<>>) \/ (v.t = "int" /\ v.n # 0)

ALG_HMAC == <<"H", "M", "A", "C", "-", "S", "H", "A", "2", "5", "6">>
ALG_ECDSA == <<"E", "C", "D", "S", "A", "-", "P", "2", "5", "6">>

(* The JSON document of an artifact file, as json.load returns it: the       *)
(* "license" object and the members "signature", "algorithm", "public_key",  *)
(* each a JSON value or JAbsent.  The three strings are ASCII text without   *)
(* a character that JSON escapes: the file holds them as they are.           *)
Artifact_one_tag(license, signature, algorithm, public_key) ==
  [exists |-> TRUE, hasLicense |-> TRUE, license |-> license, signature |-> signature,
   algorithm |-> JStr(ALG_ECDSA), public_key |-> public_key]

Artifact(license, signature, algorithm, public_key) ==
  [exists |-> TRUE, hasLicense |-> TRUE, license |-> license, signature |-> signature,
   algorithm |-> algorithm, public_key |-> public_key]

NoFile ==
  [exists |-> FALSE, hasLicense |-> FALSE, license |-> <<>>, signature |-> NoSig,
   algorithm |-> JAbsent, public_key |-> JAbsent]

\* int(text): surrounding whitespace and a sign are accepted; ok = FALSE is the
\* ValueError.
IntOf(text) ==
  LET t == Strip(text)
      r == ParseInt(t)
  IN IF t # <<>> /\ r.ok /\ r.rest = <<>> THEN [ok |-> TRUE, val |-> r.val]
     ELSE [ok |-> FALSE, val |-> 0]

(***************************************************************************)
(* The database of licenses (DatabaseManager)                              *)
(***************************************************************************)

\* The license keys of the model
LicenseKeys == { <<"A", "1">>, <<"B", "2">> }

\* The keys that secrets.token_hex gives App.generate_license
GeneratedKeys == { <<"B", "2">> }

NoRow ==
  [present |-> FALSE, customer |-> JNone, product |-> JNone, seats |-> JNone,
   hwid |-> JNone, issued_at |-> JNone, expires_at |-> JNone, notes |-> JNone,
   algorithm |-> <<>>, signature |-> Text(Literal, <<>>), is_revoked |-> FALSE]

\* value or None
OrNone(v) == IF Truthy(v) THEN v ELSE JNone

\* An insert that replaces the row, so that the column default applies again
insert_license_replacing(table, license_data, signature, algorithm) ==
  [table EXCEPT ![Get(license_data, F_key, JNone).s] =
     [present |-> TRUE,
      customer |-> Get(license_data, F_customer, JNone),
      product |-> Get(license_data, F_product, JNone),
      seats |-> Get(license_data, F_seats, JNone),
      hwid |-> Get(license_data, F_hwid, JNone),
      issued_at |-> OrNone(Get(license_data, F_issued_at, JNone)),
      expires_at |-> OrNone(Get(license_data, F_expires_at, JNone)),
      notes |-> Get(license_data, F_notes, JNone),
      algorithm |-> algorithm,
      signature |-> signature,
      is_revoked |-> FALSE]]

\* database_manager.py: DatabaseManager.insert_license.  INSERT ... ON DUPLICATE KEY
\* UPDATE names every column but is_revoked, which a new row gets from the column
\* default FALSE (CREATE_TABLE_SQL) and an existing row keeps.
insert_license(table, license_data, signature, algorithm) ==
  LET key == Get(license_data, F_key, JNone).s IN
  [table EXCEPT ![key] =
     [present |-> TRUE,
      customer |-> Get(license_data, F_customer, JNone),
      product |-> Get(license_data, F_product, JNone),
      seats |-> Get(license_data, F_seats, JNone),
      hwid |-> Get(license_data, F_hwid, JNone),
      issued_at |-> OrNone(Get(license_data, F_issued_at, JNone)),
      expires_at |-> OrNone(Get(license_data, F_expires_at, JNone)),
      notes |-> Get(license_data, F_notes, JNone),
      algorithm |-> algorithm,
      signature |-> signature,
      is_revoked |-> IF table[key].present THEN table[key].is_revoked ELSE FALSE]]

\* An update that flips the stored flag, whatever the caller asked for
revoke_license_flip(table, license_key, revoked) ==
  IF license_key \in DOMAIN table /\ table[license_key].present
  THEN [table EXCEPT ![license_key].is_revoked = ~table[license_key].is_revoked]
  ELSE table

\* DatabaseManager.revoke_license(license_key, revoked):
\* UPDATE licenses SET is_revoked = revoked WHERE license_key = license_key
revoke_license(table, license_key, revoked) ==
  IF license_key \in DOMAIN table /\ table[license_key].present
  THEN [table EXCEPT ![license_key].is_revoked = revoked]
  ELSE table

(***************************************************************************)
(* State                                                                   *)
(***************************************************************************)

VARIABLES
  file,       \* the artifact file: the JSON document in it, or NoFile
  db,         \* the licenses table of App's DatabaseManager
  legacy_db,  \* the licenses table of LicenseManagerApp's DatabaseManager
  priv_key,   \* App.priv_key
  pub_key,    \* App.pub_key
  report,     \* what the last verification displayed
  ctx,        \* the inputs of the last verification
  issued,     \* the artifact as the last issuance wrote it, and who issued it
  nIssued,    \* issuances so far
  nTampered,  \* edits of the artifact file made outside the applications
  nVerified,  \* verifications so far
  key_file,   \* generator_keys.json in App's data directory
  startup,    \* the starts of App so far, and what the last one found and did
  enc,        \* two records and their canonical encodings
  hw,         \* a call of SecurityManager.get_hwid: what the machine answers, the result
  msg,        \* the text of the Public Key dialog, once it was shown
  db_list,    \* the list of licenses each operator's App shows, and its click in progress
  upd         \* the update button of App, the update checks in flight and the
              \* callbacks they handed to the main loop

vars ==
  <<file, db, legacy_db, priv_key, pub_key, report, ctx, issued, nIssued, nTampered,
    nVerified, key_file, startup, enc, hw, msg,
    db_list, upd>>

\* What no handler of the two applications changes
side == <<hw, msg, upd>>

\* What the handlers of the buttons leave alone, but for the list of licenses
aux_db == <<key_file, startup, enc, side>>

\* What only the start of App and the encoder change
aux == <<aux_db, db_list>>

\* How many licenses are issued, and how many edits of the file are made, in one run.
MaxIssued == 1
MaxTampered == 1
MaxVerified == 1

NoIssue == [app |-> "none", doc |-> NoFile, secret |-> <<>>, dialogs |-> <<>>]

(* generator_keys.json as json.load finds it: json says whether the text is *)
(* a JSON object, private_key and public_key are its members or JAbsent.    *)
NoKeyFile ==
  [exists |-> FALSE, json |-> FALSE, private_key |-> JAbsent, public_key |-> JAbsent]

\* The file that _load_generator_keys writes
KeyFileOf(priv, pub) ==
  [exists |-> TRUE, json |-> TRUE, private_key |-> JStr(priv), public_key |-> JStr(pub)]

\* A file whose text is no JSON object
CorruptKeyFile ==
  [exists |-> TRUE, json |-> FALSE, private_key |-> JAbsent, public_key |-> JAbsent]

NoStartup == [n |-> 0, dialog |-> "", found |-> NoKeyFile, generated |-> FALSE]

NoEnc == [a |-> <<>>, b |-> <<>>, out_a |-> <<>>, out_b |-> <<>>, done |-> FALSE]

NoHw == [wmi |-> "ok", cpus |-> <<>>, disks |-> <<>>, node |-> <<>>, out |-> <<>>, done |-> FALSE]

\* The operators, each with an App on the same database
Operators == {1, 2}

NoToggle == [key |-> <<>>, state |-> FALSE, running |-> FALSE]

\* The list before the database page was opened
NoDbList ==
  [view |-> [o \in Operators |-> [k \in LicenseKeys |-> "-"]],
   click |-> [o \in Operators |-> NoToggle]]

\* Before App exists: no button, no thread
NoUpdate ==
  [btn |-> "none", manual |-> <<>>, silent |-> "none", queue |-> <<>>, asking |-> FALSE,
   alive |-> FALSE, dialog |-> ""]

\* App.__init__, lines 71 and 88-89: the button as built, and the thread of the
\* silent check started
Started ==
  [btn |-> "normal", manual |-> <<>>, silent |-> "request", queue |-> <<>>,
   asking |-> FALSE, alive |-> TRUE, dialog |-> ""]

\* The state of what is outside the handlers of the two applications
SideInit == hw = NoHw /\ msg = <<>> /\ db_list = NoDbList

NoReport ==
  [app |-> "none", kind |-> "none", status |-> "", kunde |-> JAbsent, produkt |-> JAbsent,
   sitze |-> JAbsent, hwid |-> JAbsent, ablauf |-> "", hwid_check |-> "",
   signatur_gueltig |-> "", abgelaufen |-> "", dialog |-> ""]

NoCtx ==
  [today |-> 0, machine |-> <<>>, secret |-> <<>>, doc |-> NoFile, is_valid |-> FALSE,
   revoked |-> FALSE]

Init ==
  /\ file = NoFile
  /\ db = [k \in LicenseKeys |-> NoRow]
  /\ legacy_db = [k \in LicenseKeys |-> NoRow]
  /\ \E k \in KeyPairIds :
       /\ priv_key = generate_key_pair(k).priv
       /\ pub_key = generate_key_pair(k).pub
       /\ key_file = KeyFileOf(generate_key_pair(k).priv, generate_key_pair(k).pub)
  /\ startup = [n |-> 1, dialog |-> "", found |-> NoKeyFile, generated |-> TRUE]
  /\ enc = NoEnc
  /\ SideInit
  /\ upd = Started
  /\ report = NoReport
  /\ ctx = NoCtx
  /\ issued = NoIssue
  /\ nIssued = 0
  /\ nTampered = 0
  /\ nVerified = 0

(***************************************************************************)
(* Inputs: the text of the form fields, the answers of the dialogs, the     *)
(* clock and the machine.                                                   *)
(***************************************************************************)

CustomerInputs == { <<"U+00E9", "\"">>, <<" ">> }
ProductInputs == { <<"P">> }
SeatsInputs == { <<>>, <<"1">>, <<"x">> }
HW1 == <<"H", "1">>
HW2 == <<"H", "2">>
HwidInputs == { <<>>, HW1 }
IssuedInputs == { <<"2", "0", "2", "4", "-", "0", "1", "-", "0", "1">> }
ExpiresInputs ==
  { <<>>, <<"2", "0", "2", "4", "-", "0", "6", "-", "0", "1">>, <<"x">> }
NotesInputs == { <<"a", "U+000A", "b">> }
KeyInputs == { <<"a", "1">> }
SecretInputs == { <<"s", "1">>, <<"s", "2">>, <<>> }

\* datetime.now().date()
Todays == { DateOf(2024, 5, 31), DateOf(2024, 6, 1), DateOf(2024, 6, 2) }

\* SecurityManager.get_hwid() of the machine that verifies
Machines == { HW1, HW2 }

(***************************************************************************)
(* App (license_manager_pro.py)                                            *)
(***************************************************************************)

\* An issuance that enters the license into the table before it asks for the file
generate_license_insert_first(customer, product, seats_text, hwid, issued_at, expires_at, notes, key, nonce, path, db_ok) ==
  LET cust == Strip(customer)
      prod == Strip(product)
      seats == IF seats_text = <<>> THEN [ok |-> TRUE, val |-> 1] ELSE IntOf(seats_text)
      ld == LicenseDataPro(key, cust, prod, seats.val, Strip(hwid), Strip(issued_at),
                           Strip(expires_at), Strip(notes))
      sig == sign_data(canonical_payload(ld), priv_key, nonce)
      full_license ==
        Artifact(WrittenAndRead(Loads(canonical_payload(ld)).val, TRUE, 4), JSig(sig.sig),
                 JStr(ALG_ECDSA), JStr(pub_key))
  IN
  /\ nIssued < MaxIssued
  /\ IF cust = <<>> \/ prod = <<>> \/ ~seats.ok \/ ~sig.ok
     THEN UNCHANGED vars
     ELSE /\ db' = IF db_ok THEN insert_license(db, ld, sig.sig, ALG_ECDSA) ELSE db
          /\ file' = IF path THEN full_license ELSE file
          /\ issued' = IF path
                       THEN [app |-> "pro", doc |-> full_license, secret |-> <<>>,
                             dialogs |-> IF db_ok THEN <<"Erfolg">>
                                         ELSE <<"Datenbankwarnung", "Erfolg">>]
                       ELSE issued
          /\ nIssued' = IF path THEN nIssued + 1 ELSE nIssued
          /\ nTampered' = IF path THEN 0 ELSE nTampered
          /\ UNCHANGED <<aux, legacy_db, priv_key, pub_key, report, ctx, nVerified>>

\* App.generate_license.  key and nonce are the random choices of
\* secrets.token_hex and of the signature, path the answer of the save dialog,
\* db_ok whether DatabaseManager.insert_license returns or raises.
generate_license(customer, product, seats_text, hwid, issued_at, expires_at, notes, key, nonce, path, db_ok) ==
  LET cust == Strip(customer)
      prod == Strip(product)
      seats == IF seats_text = <<>> THEN [ok |-> TRUE, val |-> 1] ELSE IntOf(seats_text)
      ld == LicenseDataPro(key, cust, prod, seats.val, Strip(hwid), Strip(issued_at),
                           Strip(expires_at), Strip(notes))
      payload == canonical_payload(ld)
      sig == sign_data(payload, priv_key, nonce)
      full_license ==
        Artifact(WrittenAndRead(Loads(payload).val, TRUE, 4), JSig(sig.sig),
                 JStr(ALG_ECDSA), JStr(pub_key))
  IN
  /\ nIssued < MaxIssued
  /\ IF cust = <<>> \/ prod = <<>> \/ ~seats.ok \/ ~sig.ok \/ ~path
     THEN UNCHANGED vars
     ELSE /\ file' = full_license
          /\ db' = IF db_ok THEN insert_license(db, ld, sig.sig, ALG_ECDSA) ELSE db
          /\ issued' = [app |-> "pro", doc |-> full_license, secret |-> <<>>,
                        dialogs |-> IF db_ok THEN <<"Erfolg">>
                                    ELSE <<"Erfolg", "Datenbankwarnung">>]
          /\ nIssued' = nIssued + 1
          /\ nTampered' = 0
          /\ UNCHANGED <<aux, legacy_db, priv_key, pub_key, report, ctx, nVerified>>

\* The payload rebuilt without the escapes of ensure_ascii
reconstruct_payload_raw(lic_data) == JsonDumps(lic_data, FALSE, TRUE)

\* license_manager_pro.py line 411: the payload rebuilt from the artifact
reconstruct_payload(lic_data) == JsonDumps(lic_data, TRUE, TRUE)

\* The comparison that takes the last day of validity for expired
is_expired_on_last_day(exp_date, today) == exp_date <= today

\* license_manager_pro.py line 430: exp_date < datetime.now().date()
is_expired(exp_date, today) == exp_date < today

\* The "Ablauf:" line of verify_license_ui
AblaufLine(lic_data, today) ==
  LET expires_at == Get(lic_data, F_expires_at, JNone) IN
  IF ~Truthy(expires_at) THEN "Kein Ablaufdatum"
  ELSE IF expires_at.t # "str" \/ ~Strptime(expires_at.s).ok THEN "Ungueltiges Format"
  ELSE IF is_expired(Strptime(expires_at.s).date, today) THEN "ABGELAUFEN"
  ELSE "Aktiv"

\* The "HWID-Check:" line of verify_license_ui, "" when there is none
HwidCheckLine(lic_data, current_hwid) ==
  LET lic_hwid == Get(lic_data, F_hwid, JNone) IN
  IF ~Truthy(lic_hwid) THEN ""
  ELSE IF lic_hwid = JStr(current_hwid) THEN "Dieser PC ist berechtigt"
  ELSE "PC mismatch"

\* is_revoked of the row of the license key of a record, FALSE without a row
IsRevoked(table, lic_data) ==
  LET key == Get(lic_data, F_key, JNone) IN
  key.t = "str" /\ key.s \in DOMAIN table /\ table[key.s].present /\ table[key.s].is_revoked

\* A signature check that takes the key of the application, whatever the
\* document holds
signature_check_own_key(data, own_pub_key) ==
  LET lic_data == IF data.hasLicense THEN data.license ELSE <<>>
      sig == IF data.signature.t = "absent" THEN JSig(Text(Literal, <<>>)) ELSE data.signature
  IN verify_signature(reconstruct_payload(lic_data), sig, JStr(own_pub_key))

\* App.verify_license_ui, lines 406-413: the signature check of the document
\* data that json.load returned, by an application whose key is own_pub_key
signature_check(data, own_pub_key) ==
  LET lic_data == IF data.hasLicense THEN data.license ELSE <<>>
      sig == IF data.signature.t = "absent" THEN JSig(Text(Literal, <<>>)) ELSE data.signature
      pub == IF data.public_key.t = "absent" THEN JStr(own_pub_key) ELSE data.public_key
      payload == reconstruct_payload(lic_data)
  IN verify_signature(payload, sig, pub)

\* A verifier that keeps the public key of the artifact it has read
verify_license_ui_adopting_key(path, today, current_hwid) ==
  /\ file.exists
  /\ nVerified < MaxVerified
  /\ path
  /\ pub_key' = IF file.public_key.t = "str" THEN file.public_key.s ELSE pub_key
  /\ report' = [NoReport EXCEPT !.app = "pro", !.kind = "text", !.status = "UNGUELTIG"]
  /\ ctx' = [today |-> today, machine |-> current_hwid, secret |-> <<>>, doc |-> file,
             is_valid |-> FALSE, revoked |-> FALSE]
  /\ nVerified' = nVerified + 1
  /\ UNCHANGED <<aux, file, db, legacy_db, priv_key, issued, nIssued, nTampered>>

\* App.verify_license_ui: path is the answer of the open dialog, today the clock,
\* current_hwid the result of get_hwid.
verify_license_ui(path, today, current_hwid) ==
  LET lic_data == IF file.hasLicense THEN file.license ELSE <<>>
      is_valid == signature_check(file, pub_key)
  IN
  /\ file.exists
  /\ nVerified < MaxVerified
  /\ IF ~path THEN UNCHANGED vars
     ELSE /\ report' =
               IF is_valid
               THEN [NoReport EXCEPT
                       !.app = "pro", !.kind = "text", !.status = "GUELTIG",
                       !.kunde = Get(lic_data, F_customer, JNone),
                       !.produkt = Get(lic_data, F_product, JNone),
                       !.sitze = Get(lic_data, F_seats, JNone),
                       !.hwid = Get(lic_data, F_hwid, JNone),
                       !.ablauf = AblaufLine(lic_data, today),
                       !.hwid_check = HwidCheckLine(lic_data, current_hwid)]
               ELSE [NoReport EXCEPT !.app = "pro", !.kind = "text", !.status = "UNGUELTIG"]
          /\ ctx' = [today |-> today, machine |-> current_hwid, secret |-> <<>>,
                     doc |-> file, is_valid |-> is_valid,
                     revoked |-> IsRevoked(db, lic_data)]
          /\ nVerified' = nVerified + 1
          /\ UNCHANGED <<aux, file, db, legacy_db, priv_key, pub_key, issued, nIssued, nTampered>>

\* App._refresh_db_list: the status label of each row of get_all_licenses()
get_all_licenses(table) ==
  [k \in LicenseKeys |->
     IF ~table[k].present THEN "-" ELSE IF table[k].is_revoked THEN "Gesperrt" ELSE "Aktiv"]

\* App._toggle_revoke(key, state), the button of a row of the licenses list: the write and
\* the refresh of the list of the operator's App
toggle_revoke(key, state) ==
  /\ db[key].present
  /\ db' = revoke_license(db, key, state)
  /\ db_list' = [db_list EXCEPT !.view[1] = get_all_licenses(db')]
  /\ UNCHANGED <<aux_db, file, legacy_db, priv_key, pub_key, report, ctx, issued, nIssued,
                 nTampered, nVerified>>

(***************************************************************************)
(* LicenseManagerApp (license_manager.py)                                  *)
(***************************************************************************)

\* iso_date_or_empty(value); ok = FALSE is the ValueError of strptime.
iso_date_or_empty(value) ==
  LET v == Strip(value) IN
  IF v = <<>> THEN [ok |-> TRUE, val |-> <<>>]
  ELSE IF Strptime(v).ok THEN [ok |-> TRUE, val |-> v]
  ELSE [ok |-> FALSE, val |-> <<>>]

NoLicenseData == [ok |-> FALSE, ld |-> <<>>]

\* LicenseManagerApp._collect_license_data; ok = FALSE is any of its ValueErrors.
collect_license_data(key_text, customer_text, product_text, seats_text, issued_text, expires_text, notes_text) ==
  LET key == Upper(Strip(key_text))
      customer == Strip(customer_text)
      product == Strip(product_text)
      notes == Strip(notes_text)
      seats == IntOf(Strip(seats_text))
      issued_at == iso_date_or_empty(issued_text)
      expires_at == iso_date_or_empty(expires_text)
  IN
  IF key = <<>> \/ customer = <<>> \/ product = <<>> THEN NoLicenseData
  ELSE IF ~seats.ok \/ seats.val < 1 THEN NoLicenseData
  ELSE IF ~issued_at.ok \/ ~expires_at.ok THEN NoLicenseData
  ELSE IF issued_at.val = <<>> THEN NoLicenseData
  ELSE IF expires_at.val # <<>> /\ StrLess(expires_at.val, issued_at.val) THEN NoLicenseData
  ELSE [ok |-> TRUE,
        ld |-> LicenseDataHmac(key, customer, product, seats.val, issued_at.val,
                               expires_at.val, notes)]

\* license_manager.py: DatabaseManager.insert_license; its table has neither a hwid
\* nor an is_revoked column.
legacy_insert_license(table, license_data, signature, algorithm) ==
  LET key == Get(license_data, F_key, JNone).s IN
  [table EXCEPT ![key] =
     [present |-> TRUE,
      customer |-> Get(license_data, F_customer, JNone),
      product |-> Get(license_data, F_product, JNone),
      seats |-> Get(license_data, F_seats, JNone),
      hwid |-> JNone,
      issued_at |-> OrNone(Get(license_data, F_issued_at, JNone)),
      expires_at |-> OrNone(Get(license_data, F_expires_at, JNone)),
      notes |-> Get(license_data, F_notes, JNone),
      algorithm |-> algorithm,
      signature |-> signature,
      is_revoked |-> FALSE]]

\* LicenseManagerApp.save_license.  target is the answer of the save dialog,
\* db_enabled the checkbox of the database tab, db_ok whether insert_license
\* returns or raises (_save_to_db).
save_license(secret_text, key_text, customer_text, product_text, seats_text, issued_text, expires_text, notes_text, target, db_enabled, db_ok) ==
  LET secret == Strip(secret_text)
      license_data == collect_license_data(key_text, customer_text, product_text,
                                           seats_text, issued_text, expires_text,
                                           notes_text)
      payload == canonical_payload(license_data.ld)
      signature == b64_signature(payload, secret)
      full_license ==
        Artifact(WrittenAndRead(Loads(payload).val, FALSE, 2), JSig(signature),
                 JStr(ALG_HMAC), JAbsent)
  IN
  /\ nIssued < MaxIssued
  /\ IF secret = <<>> \/ ~license_data.ok \/ ~target
     THEN UNCHANGED vars
     ELSE /\ file' = full_license
          /\ legacy_db' =
               IF db_enabled /\ db_ok
               THEN legacy_insert_license(legacy_db, license_data.ld, signature, ALG_HMAC)
               ELSE legacy_db
          /\ issued' = [app |-> "legacy", doc |-> full_license, secret |-> secret,
                        dialogs |-> IF ~db_enabled THEN <<"Erfolg">>
                                    ELSE IF db_ok THEN <<"Erfolg, in der Datenbank eingetragen">>
                                    ELSE <<"Datenbankwarnung", "Gespeichert">>]
          /\ nIssued' = nIssued + 1
          /\ nTampered' = 0
          /\ UNCHANGED <<aux, db, priv_key, pub_key, report, ctx, nVerified>>

\* license_manager.py line 682: the payload rebuilt from the artifact
legacy_payload(lic_data) == JsonDumps(lic_data, TRUE, TRUE)

\* license_manager.py line 689: strptime(...).date() < datetime.now().date()
legacy_is_expired(exp_date, today) == exp_date < today

\* license_manager.py lines 686-693: raised is the TypeError of strptime for a value
\* that is no str, which the handler does not catch; a ValueError is caught.
legacy_expiry(lic_data, today) ==
  LET expiry_text == Get(lic_data, F_expires_at, JStr(<<>>)) IN
  IF ~Truthy(expiry_text) THEN [raised |-> FALSE, expired |-> FALSE]
  ELSE IF expiry_text.t # "str" THEN [raised |-> TRUE, expired |-> FALSE]
  ELSE IF ~Strptime(expiry_text.s).ok THEN [raised |-> FALSE, expired |-> FALSE]
  ELSE [raised |-> FALSE,
        expired |-> legacy_is_expired(Strptime(expiry_text.s).date, today)]

\* LicenseManagerApp.verify_license_file: source is the answer of the open dialog,
\* today the clock.  kind "error" is an error dialog before the check, "raised" an
\* exception that leaves the handler, "result" the log lines and the dialog.
\* hmac.compare_digest is a TypeError too for a signature that is no str.
verify_license_file(secret_text, source, today) ==
  LET secret == Strip(secret_text)
      payload == legacy_payload(file.license)
      expected == b64_signature(payload, secret)
      cmp == IF file.signature.t # "str" THEN [ok |-> FALSE, equal |-> FALSE]
             ELSE compare_digest(expected, SigText(file.signature))
      is_valid == cmp.ok /\ cmp.equal
      expiry == legacy_expiry(file.license, today)
      shown ==
        IF ~file.hasLicense \/ file.signature.t = "absent"
        THEN [NoReport EXCEPT !.app = "legacy", !.kind = "error", !.dialog = "fehlt"]
        ELSE IF ~cmp.ok \/ expiry.raised
        THEN [NoReport EXCEPT !.app = "legacy", !.kind = "raised"]
        ELSE [NoReport EXCEPT
                !.app = "legacy", !.kind = "result",
                !.signatur_gueltig = IF is_valid THEN "JA" ELSE "NEIN",
                !.abgelaufen = IF expiry.expired THEN "JA" ELSE "NEIN",
                !.dialog = IF ~is_valid THEN "Signatur ist ungueltig"
                           ELSE IF expiry.expired THEN "gueltig, aber abgelaufen"
                           ELSE "Lizenz ist gueltig"]
  IN
  /\ file.exists
  /\ nVerified < MaxVerified
  /\ IF secret = <<>>
     THEN /\ report' = [NoReport EXCEPT !.app = "legacy", !.kind = "error",
                                        !.dialog = "Secret"]
          /\ ctx' = [NoCtx EXCEPT !.today = today, !.doc = file]
          /\ nVerified' = nVerified + 1
          /\ UNCHANGED <<aux, file, db, legacy_db, priv_key, pub_key, issued, nIssued, nTampered>>
     ELSE IF ~source THEN UNCHANGED vars
     ELSE /\ report' = shown
          /\ ctx' = [today |-> today, machine |-> <<>>, secret |-> secret, doc |-> file,
                     is_valid |-> (shown.kind = "result" /\ is_valid), revoked |-> FALSE]
          /\ nVerified' = nVerified + 1
          /\ UNCHANGED <<aux, file, db, legacy_db, priv_key, pub_key, issued, nIssued, nTampered>>

(***************************************************************************)
(* The artifact file outside the applications: whoever holds the file edits *)
(* the JSON document in it before it is verified.                           *)
(***************************************************************************)

RECURSIVE Reverse(_)
Reverse(seq) == IF seq = <<>> THEN <<>> ELSE Append(Reverse(Tail(seq)), Head(seq))

LaterDate == <<"2", "0", "2", "4", "-", "1", "2", "-", "3", "1">>

RecordEdits ==
  { "value", "type", "add", "remove", "reorder", "expiry", "expiry_type", "hwid", "key" }

\* One edit of the "license" object
EditRecord(op, lic) ==
  CASE op = "value" -> Put(lic, F_customer, JStr(<<"B">>))
    [] op = "type" -> Put(lic, F_seats, JStr(IntToChars(Get(lic, F_seats, JInt(1)).n)))
    [] op = "add" -> Put(lic, <<"x">>, JInt(1))
    [] op = "remove" -> Del(lic, F_notes)
    [] op = "reorder" -> Reverse(lic)
    [] op = "expiry" -> Put(lic, F_expires_at, JStr(LaterDate))
    [] op = "expiry_type" -> Put(lic, F_expires_at, JInt(5))
    [] op = "hwid" -> Put(lic, F_hwid, JStr(HW2))
    [] op = "key" -> Put(lic, F_key, JStr(<<"C", "3">>))

\* Two records with the same names and the same value for each name
SameRecord(a, b) ==
  /\ Names(a) = Names(b)
  /\ \A k \in Names(a) : Get(a, k, JAbsent) = Get(b, k, JAbsent)

edit_record(op) ==
  /\ file.exists /\ file.hasLicense
  /\ nTampered < MaxTampered
  /\ file' = [file EXCEPT !.license = EditRecord(op, file.license)]
  /\ file' # file
  /\ nTampered' = nTampered + 1
  /\ UNCHANGED <<aux, db, legacy_db, priv_key, pub_key, report, ctx, issued, nIssued, nVerified>>

\* The file without its "license" member
drop_record ==
  /\ file.exists /\ file.hasLicense
  /\ nTampered < MaxTampered
  /\ file' = [file EXCEPT !.hasLicense = FALSE, !.license = <<>>]
  /\ nTampered' = nTampered + 1
  /\ UNCHANGED <<aux, db, legacy_db, priv_key, pub_key, report, ctx, issued, nIssued, nVerified>>

SignatureEdits ==
  { "append_bang", "insert_newline", "append_pad", "append_nonascii", "flip_last_bit",
    "flip_first_bit", "drop_last", "append_char", "forge_hmac", "empty", "number", "null" }

FlipBitAt(cs, i, j) ==
  [cs EXCEPT ![i] = IF cs[i].c = "b64"
                    THEN B64Char([cs[i].bits EXCEPT ![j] = FlipBit(cs[i].bits[j])])
                    ELSE cs[i]]

\* One edit of the "signature" string.  forge_hmac is the HMAC of the record's
\* payload under the public key's text, which everybody knows.
EditSignature(op, sig, lic) ==
  LET cs == sig.s IN
  CASE op = "append_bang" -> JSig(Text(sig.d, cs \o <<PlainChar("!")>>))
    [] op = "insert_newline" ->
         JSig(Text(sig.d, SubSeq(cs, 1, 1) \o <<PlainChar("U+000A")>> \o SubSeq(cs, 2, Len(cs))))
    [] op = "append_pad" -> JSig(Text(sig.d, cs \o <<Pad>>))
    [] op = "append_nonascii" -> JSig(Text(sig.d, cs \o <<PlainChar("U+00E9")>>))
    [] op = "flip_last_bit" -> JSig(Text(sig.d, FlipBitAt(cs, Len(cs), 6)))
    [] op = "flip_first_bit" -> JSig(Text(sig.d, FlipBitAt(cs, 1, 1)))
    [] op = "drop_last" -> JSig(Text(sig.d, SubSeq(cs, 1, Len(cs) - 1)))
    [] op = "append_char" -> JSig(Text(sig.d, cs \o <<B64Char(<<0, 0, 0, 0, 0, 0>>)>>))
    [] op = "forge_hmac" -> JSig(b64_signature(JsonDumps(lic, TRUE, TRUE), pub_key))
    [] op = "empty" -> JSig(Text(Literal, <<>>))
    [] op = "number" -> [t |-> "int", s |-> <<>>, n |-> 5, d |-> Literal]
    [] op = "null" -> [t |-> "none", s |-> <<>>, n |-> 0, d |-> Literal]

edit_signature(op) ==
  /\ file.exists /\ file.signature.t = "str" /\ file.signature.s # <<>>
  /\ nTampered < MaxTampered
  /\ file' = [file EXCEPT !.signature = EditSignature(op, file.signature, file.license)]
  /\ file' # file
  /\ nTampered' = nTampered + 1
  /\ UNCHANGED <<aux, db, legacy_db, priv_key, pub_key, report, ctx, issued, nIssued, nVerified>>

\* The file without its "signature" member
drop_signature ==
  /\ file.exists /\ file.signature.t # "absent"
  /\ nTampered < MaxTampered
  /\ file' = [file EXCEPT !.signature = NoSig]
  /\ nTampered' = nTampered + 1
  /\ UNCHANGED <<aux, db, legacy_db, priv_key, pub_key, report, ctx, issued, nIssued, nVerified>>

AlgorithmEdits == { JAbsent, JStr(<<"F", "O", "O">>), JStr(ALG_HMAC), JStr(ALG_ECDSA) }

edit_algorithm(v) ==
  /\ file.exists
  /\ nTampered < MaxTampered
  /\ file' = [file EXCEPT !.algorithm = v]
  /\ file' # file
  /\ nTampered' = nTampered + 1
  /\ UNCHANGED <<aux, db, legacy_db, priv_key, pub_key, report, ctx, issued, nIssued, nVerified>>

PublicKeyEdits == { JAbsent, JStr(<<"x">>) } \cup { JStr(PubPem(k)) : k \in KeyPairIds }

edit_public_key(v) ==
  /\ file.exists
  /\ nTampered < MaxTampered
  /\ file' = [file EXCEPT !.public_key = v]
  /\ file' # file
  /\ nTampered' = nTampered + 1
  /\ UNCHANGED <<aux, db, legacy_db, priv_key, pub_key, report, ctx, issued, nIssued, nVerified>>

Next ==
  \/ \E customer \in CustomerInputs, product \in ProductInputs, seats_text \in SeatsInputs,
        hwid \in HwidInputs, issued_at \in IssuedInputs, expires_at \in ExpiresInputs,
        notes \in NotesInputs, key \in GeneratedKeys, nonce \in Nonces, path \in BOOLEAN,
        db_ok \in BOOLEAN :
       generate_license(customer, product, seats_text, hwid, issued_at, expires_at, notes,
                        key, nonce, path, db_ok)
  \/ \E path \in BOOLEAN, today \in Todays, current_hwid \in Machines :
       verify_license_ui(path, today, current_hwid)
  \/ \E key \in LicenseKeys, state \in BOOLEAN : toggle_revoke(key, state)
  \/ \E secret_text \in SecretInputs, key_text \in KeyInputs,
        customer_text \in CustomerInputs, product_text \in ProductInputs,
        seats_text \in SeatsInputs, issued_text \in IssuedInputs,
        expires_text \in ExpiresInputs, notes_text \in NotesInputs, target \in BOOLEAN,
        db_enabled \in BOOLEAN, db_ok \in BOOLEAN :
       save_license(secret_text, key_text, customer_text, product_text, seats_text,
                    issued_text, expires_text, notes_text, target, db_enabled, db_ok)
  \/ \E secret_text \in SecretInputs, source \in BOOLEAN, today \in Todays :
       verify_license_file(secret_text, source, today)
  \/ \E op \in RecordEdits : edit_record(op)
  \/ drop_record
  \/ \E op \in SignatureEdits : edit_signature(op)
  \/ drop_signature
  \/ \E v \in AlgorithmEdits : edit_algorithm(v)
  \/ \E v \in PublicKeyEdits : edit_public_key(v)

Spec == Init /\ [][Next]_vars

\* ------------------------------------------------------------------------
\* The start of App: __init__ and _load_generator_keys
\* ------------------------------------------------------------------------

MaxStarts == 3

\* How the write of generator_keys.json ends: written, open() raises and the
\* file stays as it was, or json.dump raises after open(.., "w") truncated it
WriteOutcomes == {"ok", "open_raises", "dump_raises"}

\* data.get(name, "") as the str the later code sees; null is None, which is
\* as falsy as ""
KeyMember(v) == IF v.t = "str" THEN v.s ELSE <<>>

\* A key file that holds a key pair generate_key_pair() made
GoodKeyFile(kf) ==
  /\ kf.exists
  /\ kf.json
  /\ \E k \in KeyPairIds :
       /\ kf.private_key = JStr(generate_key_pair(k).priv)
       /\ kf.public_key = JStr(generate_key_pair(k).pub)

\* generator_keys.json as a start can find it
KeyFiles ==
  {NoKeyFile, CorruptKeyFile}
    \cup {KeyFileOf(generate_key_pair(k).priv, generate_key_pair(k).pub) : k \in KeyPairIds}
    \cup {KeyFileOf(<<"x">>, generate_key_pair(1).pub),
          KeyFileOf(<<>>, generate_key_pair(1).pub),
          [exists |-> TRUE, json |-> TRUE, private_key |-> JAbsent, public_key |-> JStr(generate_key_pair(1).pub)],
          [exists |-> TRUE, json |-> TRUE, private_key |-> JNone, public_key |-> JStr(generate_key_pair(1).pub)],
          [exists |-> TRUE, json |-> TRUE, private_key |-> JStr(generate_key_pair(1).priv), public_key |-> JAbsent],
          KeyFileOf(generate_key_pair(1).priv, generate_key_pair(MaxKeyPairs).pub)}

\* App.__init__ up to _load_generator_keys: k is the pair generate_key_pair()
\* would make, read_ok whether open() and json.load() get through.
start(k, read_ok, write) ==
  LET loaded == key_file.exists /\ read_ok /\ key_file.json
      priv0 == IF loaded THEN KeyMember(key_file.private_key) ELSE <<>>
      pub0 == IF loaded THEN KeyMember(key_file.public_key) ELSE <<>>
      gen == priv0 = <<>>
      pair == generate_key_pair(k)
  IN
  /\ startup.n < MaxStarts
  /\ key_file.exists \/ read_ok
  /\ gen \/ write = "ok"
  /\ priv_key' = IF gen THEN pair.priv ELSE priv0
  /\ pub_key' = IF gen THEN pair.pub ELSE pub0
  /\ key_file' = IF ~gen \/ write = "open_raises" THEN key_file
                 ELSE IF write = "dump_raises" THEN CorruptKeyFile
                 ELSE KeyFileOf(pair.priv, pair.pub)
  /\ startup' = [n |-> startup.n + 1,
                 dialog |-> IF gen /\ write # "ok" THEN "Konnte Key-Datei nicht speichern" ELSE "",
                 found |-> key_file,
                 generated |-> gen]
  /\ UNCHANGED <<file, db, legacy_db, report, ctx, issued, nIssued, nTampered, nVerified, enc, side, db_list>>

InitKeys ==
  /\ file = NoFile
  /\ db = [k \in LicenseKeys |-> NoRow]
  /\ legacy_db = [k \in LicenseKeys |-> NoRow]
  /\ priv_key = <<>>
  /\ pub_key = <<>>
  /\ key_file \in KeyFiles
  /\ startup = NoStartup
  /\ enc = NoEnc
  /\ SideInit
  /\ upd = NoUpdate
  /\ report = NoReport
  /\ ctx = NoCtx
  /\ issued = NoIssue
  /\ nIssued = 0
  /\ nTampered = 0
  /\ nVerified = 0

NextKeys == \E k \in KeyPairIds, read_ok \in BOOLEAN, write \in WriteOutcomes : start(k, read_ok, write)

SpecKeys == InitKeys /\ [][NextKeys]_vars

\* ------------------------------------------------------------------------
\* The canonical encoding on its own
\* ------------------------------------------------------------------------

\* Values of the member seats: none, a number, the same digits as a str, null,
\* the text of null as a str
EncSeats == {JAbsent, JInt(5), JStr(<<"5">>), JNone, JStr(<<"n", "u", "l", "l">>)}

\* Values of the member notes: none, the empty str, and texts that test the
\* escaping (a character and the text of its escape, a text that closes the str)
EncNotes ==
  {JAbsent}
    \cup {JStr(t) : t \in { <<>>, <<"U+00E9">>, <<"\\", "u", "0", "0", "e", "9">>,
                            <<"U+000A">>, <<"\\", "n">>, <<"\"">>,
                            <<"\"", ",", "\"", "s", "e", "a", "t", "s", "\"", ":", "\"", "5">> }}

\* The member of a dict, none for a value that is absent
OneMember(k, v) == IF v = JAbsent THEN <<>> ELSE <<Member(k, v)>>

\* The records the encoder is given: every value in both orders of the members
EncRecords ==
  {OneMember(F_seats, x) \o OneMember(F_notes, n) : x \in EncSeats, n \in EncNotes}
    \cup {OneMember(F_notes, n) \o OneMember(F_seats, x) : x \in EncSeats, n \in EncNotes}

\* payload = canonical_payload() of two records
encode ==
  /\ ~enc.done
  /\ enc' = [enc EXCEPT !.out_a = canonical_payload(enc.a),
                        !.out_b = canonical_payload(enc.b),
                        !.done = TRUE]
  /\ UNCHANGED <<file, db, legacy_db, priv_key, pub_key, report, ctx, issued, nIssued, nTampered, nVerified, key_file, startup, side, db_list>>

InitEncode ==
  /\ file = NoFile
  /\ db = [k \in LicenseKeys |-> NoRow]
  /\ legacy_db = [k \in LicenseKeys |-> NoRow]
  /\ priv_key = <<>>
  /\ pub_key = <<>>
  /\ key_file = NoKeyFile
  /\ startup = NoStartup
  /\ \E a \in EncRecords, b \in EncRecords : enc = [NoEnc EXCEPT !.a = a, !.b = b]
  /\ SideInit
  /\ upd = NoUpdate
  /\ report = NoReport
  /\ ctx = NoCtx
  /\ issued = NoIssue
  /\ nIssued = 0
  /\ nTampered = 0
  /\ nVerified = 0

NextEncode == encode

SpecEncode == InitEncode /\ [][NextEncode]_vars

\* The names of the members of an encoded object, in the order of the text
EncodedNames(text) == [i \in 1..Len(Loads(text).val) |-> Loads(text).val[i].k]

\* Ascending order without repetition
Ascending(names) == \A i \in 1..(Len(names) - 1) : StrLess(names[i], names[i + 1])

\* ------------------------------------------------------------------------
\* Artifacts of one installation verified by another: App is started anew
\* between the issuance and the verification, with or without its key file
\* ------------------------------------------------------------------------

NextVerifiers ==
  \/ \E customer \in CustomerInputs, product \in ProductInputs, hwid \in HwidInputs,
        issued_at \in IssuedInputs, notes \in NotesInputs, key \in GeneratedKeys,
        nonce \in Nonces, db_ok \in BOOLEAN :
       generate_license(customer, product, <<"1">>, hwid, issued_at, <<>>, notes, key, nonce,
                        TRUE, db_ok)
  \/ \E k \in KeyPairIds, read_ok \in BOOLEAN, write \in WriteOutcomes : start(k, read_ok, write)
  \/ \E v \in PublicKeyEdits : edit_public_key(v)
  \/ \E today \in Todays, current_hwid \in Machines : verify_license_ui(TRUE, today, current_hwid)

SpecVerifiers == Init /\ [][NextVerifiers]_vars

\* The artifact file is as issued, but for its public_key
AsIssuedButKey == [file EXCEPT !.public_key = issued.doc.public_key] = issued.doc

\* ------------------------------------------------------------------------
\* What the applications write and display
\* ------------------------------------------------------------------------

\* A dialog that shows the private key
show_private_key ==
  /\ msg' = priv_key
  /\ msg' # msg
  /\ UNCHANGED <<file, db, legacy_db, priv_key, pub_key, report, ctx, issued, nIssued, nTampered, nVerified, key_file, startup, enc, hw, db_list, upd>>

\* App.show_public_key: the Public Key dialog
show_public_key ==
  /\ msg' = pub_key
  /\ msg' # msg
  /\ UNCHANGED <<file, db, legacy_db, priv_key, pub_key, report, ctx, issued, nIssued, nTampered, nVerified, key_file, startup, enc, hw, db_list, upd>>

NextDisclosure ==
  \/ \E customer \in CustomerInputs, product \in ProductInputs, hwid \in HwidInputs,
        issued_at \in IssuedInputs, expires_at \in ExpiresInputs, notes \in NotesInputs,
        key \in GeneratedKeys, nonce \in Nonces, db_ok \in BOOLEAN :
       generate_license(customer, product, <<"1">>, hwid, issued_at, expires_at, notes, key,
                        nonce, TRUE, db_ok)
  \/ \E secret_text \in SecretInputs, key_text \in KeyInputs,
        customer_text \in CustomerInputs, product_text \in ProductInputs,
        issued_text \in IssuedInputs, expires_text \in ExpiresInputs,
        notes_text \in NotesInputs, db_enabled \in BOOLEAN, db_ok \in BOOLEAN :
       save_license(secret_text, key_text, customer_text, product_text, <<"1">>, issued_text,
                    expires_text, notes_text, TRUE, db_enabled, db_ok)
  \/ \E today \in Todays, current_hwid \in Machines : verify_license_ui(TRUE, today, current_hwid)
  \/ \E secret_text \in SecretInputs, today \in Todays :
       verify_license_file(secret_text, TRUE, today)
  \/ show_public_key

SpecDisclosure == Init /\ [][NextDisclosure]_vars

\* The str values among JSON values
StrsOf(values) == { v.s : v \in { w \in values : w.t = "str" } }

\* The texts in the artifact file, in the rows of the two tables, in what a
\* verification displayed and in the Public Key dialog
OutputTexts ==
  StrsOf({ file.license[i].v : i \in 1..Len(file.license) })
    \cup StrsOf({file.public_key, file.algorithm})
    \cup UNION { StrsOf({t[k].customer, t[k].product, t[k].hwid, t[k].issued_at,
                          t[k].expires_at, t[k].notes}) \cup {t[k].algorithm}
                 : k \in LicenseKeys, t \in {db, legacy_db} }
    \cup StrsOf({report.kunde, report.produkt, report.hwid})
    \cup {msg}

\* sub in text
Contains(text, sub) ==
  \E i \in 0..(Len(text) - Len(sub)) : SubSeq(text, i + 1, i + Len(sub)) = sub

\* The bits of a signature written or stored are those of its algorithm, not
\* text taken from the key
SignatureIsDigest(sig) == sig.d.alg \in {"ECDSA-P256", "HMAC-SHA256"}

\* ------------------------------------------------------------------------
\* SecurityManager.get_hwid on its own
\* ------------------------------------------------------------------------

\* hashlib.sha256(text.encode()).hexdigest().upper()[:24]: the first 24 of the
\* 64 hexadecimal digits, in upper case, as a term over the hashed text
Sha256Upper24(text) == [digits |-> 24, upper |-> TRUE, of |-> text]

\* What Win32_Processor() / Win32_DiskDrive() answer: the ProcessorId or the
\* SerialNumber of each device, a str or None
DeviceLists ==
  { <<>>, <<JStr(<<"C", "1">>)>>, <<JStr(<<" ", "C", "1", " ">>)>>, <<JNone>>,
    <<JStr(<<"C", "2">>), JStr(<<"C", "1">>)>> }

\* platform.node()
NodeNames == { <<"N", "1">>, <<"N", "2">> }

\* for device in ...: id = device.<attribute>.strip(); break.  ok = FALSE is the
\* AttributeError of None.strip()
FirstId(devices) ==
  IF devices = <<>> THEN [ok |-> TRUE, val |-> <<>>]
  ELSE IF Head(devices).t # "str" THEN [ok |-> FALSE, val |-> <<>>]
  ELSE [ok |-> TRUE, val |-> Strip(Head(devices).s)]

\* SecurityManager.get_hwid(): hw.wmi = "raises" is an exception of wmi.WMI()
\* or of a query
get_hwid ==
  LET cpu_id == FirstId(hw.cpus)
      disk_id == FirstId(hw.disks)
      raw_id == cpu_id.val \o <<"-">> \o disk_id.val
  IN
  /\ ~hw.done
  /\ hw' = [hw EXCEPT !.done = TRUE,
                      !.out = IF hw.wmi = "ok" /\ cpu_id.ok /\ disk_id.ok
                              THEN Sha256Upper24(raw_id)
                              ELSE Sha256Upper24(hw.node)]
  /\ UNCHANGED <<file, db, legacy_db, priv_key, pub_key, report, ctx, issued, nIssued, nTampered, nVerified, key_file, startup, enc, msg, db_list, upd>>

\* The state of the variables of the two applications before anything is done
Idle ==
  /\ file = NoFile
  /\ db = [k \in LicenseKeys |-> NoRow]
  /\ legacy_db = [k \in LicenseKeys |-> NoRow]
  /\ priv_key = <<>>
  /\ pub_key = <<>>
  /\ key_file = NoKeyFile
  /\ startup = NoStartup
  /\ enc = NoEnc
  /\ report = NoReport
  /\ ctx = NoCtx
  /\ issued = NoIssue
  /\ nIssued = 0
  /\ nTampered = 0
  /\ nVerified = 0

InitHwid ==
  /\ Idle
  /\ msg = <<>>
  /\ db_list = NoDbList
  /\ upd = NoUpdate
  /\ \E w \in {"ok", "raises"}, c \in DeviceLists, d \in DeviceLists, n \in NodeNames :
       hw = [NoHw EXCEPT !.wmi = w, !.cpus = c, !.disks = d, !.node = n]

SpecHwid == InitHwid /\ [][get_hwid]_vars

\* ------------------------------------------------------------------------
\* Two operators on one licenses table
\* ------------------------------------------------------------------------

\* What _refresh_db_list leaves when get_all_licenses() raises: the label
\* "Fehler beim Laden" and no row
LoadError == [k \in LicenseKeys |-> "Fehler beim Laden"]

\* App._refresh_db_list, with the database reachable or not
refresh_db_list(table, db_ok) == IF db_ok THEN get_all_licenses(table) ELSE LoadError

\* App.show_database: the page is built and _refresh_db_list() renders the rows
show_database(o, db_ok) ==
  /\ ~db_list.click[o].running
  /\ db_list' = [db_list EXCEPT !.view[o] = refresh_db_list(db, db_ok)]
  /\ UNCHANGED <<aux_db, file, db, legacy_db, priv_key, pub_key, report, ctx, issued, nIssued,
                 nTampered, nVerified>>

\* The button of the row of `key` in the list operator o sees: the lambda of
\* _refresh_db_list kept r = not l['is_revoked'] of the row as rendered, and
\* _toggle_revoke(k, r) runs its first statement, self.db.revoke_license(key, state).
\* The statements of the other operator's App can run before the second one.
\* When revoke_license raises, the error dialog is all there is.
toggle_revoke_write(o, key, db_ok) ==
  LET state == db_list.view[o][key] = "Aktiv" IN
  /\ ~db_list.click[o].running
  /\ db_list.view[o][key] \in {"Aktiv", "Gesperrt"}
  /\ IF ~db_ok
     THEN UNCHANGED vars
     ELSE /\ db' = revoke_license(db, key, state)
          /\ db_list' = [db_list EXCEPT
                           !.click[o] = [key |-> key, state |-> state, running |-> TRUE]]
          /\ UNCHANGED <<aux_db, file, legacy_db, priv_key, pub_key, report, ctx, issued,
                         nIssued, nTampered, nVerified>>

\* The second statement of _toggle_revoke: self._refresh_db_list()
toggle_revoke_refresh(o, db_ok) ==
  /\ db_list.click[o].running
  /\ db_list' = [db_list EXCEPT !.view[o] = refresh_db_list(db, db_ok), !.click[o] = NoToggle]
  /\ UNCHANGED <<aux_db, file, db, legacy_db, priv_key, pub_key, report, ctx, issued, nIssued,
                 nTampered, nVerified>>

\* The seats of the licenses issued on the shared table
SharedSeats == {1, 2}

\* generate_license of the App of the other installation, which signs with the
\* key pair MaxKeyPairs and whose artifact file is not the one of this model:
\* what reaches the shared table is line 391,
\* self.db.insert_license(ld, sig), with the default algorithm "ECDSA-P256"
insert_from_elsewhere(key, seats) ==
  LET ld == LicenseDataPro(key, <<"C">>, <<"P">>, seats, <<>>,
                           <<"2", "0", "2", "4", "-", "0", "1", "-", "0", "1">>, <<>>, <<>>)
      sig == sign_data(canonical_payload(ld), generate_key_pair(MaxKeyPairs).priv, 1)
  IN
  /\ db' = insert_license(db, ld, sig.sig, ALG_ECDSA)
  /\ db' # db
  /\ UNCHANGED <<aux, file, legacy_db, priv_key, pub_key, report, ctx, issued, nIssued,
                 nTampered, nVerified>>

NextDb ==
  \/ \E o \in Operators, db_ok \in BOOLEAN : show_database(o, db_ok)
  \/ \E o \in Operators, key \in LicenseKeys, db_ok \in BOOLEAN :
       toggle_revoke_write(o, key, db_ok)
  \/ \E o \in Operators, db_ok \in BOOLEAN : toggle_revoke_refresh(o, db_ok)
  \/ \E key \in LicenseKeys, seats \in SharedSeats : insert_from_elsewhere(key, seats)

\* This installation holds the key pair 1
InitDb == Init /\ priv_key = generate_key_pair(1).priv

SpecDb == InitDb /\ [][NextDb]_vars

\* The step is the write of a click of operator o
IsWrite(o) == ~db_list.click[o].running /\ db_list'.click[o].running

\* The step is the end of a click of operator o
IsRefresh(o) == db_list.click[o].running /\ ~db_list'.click[o].running

\* The step is an insert into the row of key
IsInsert(key) == db'[key] # db[key] /\ db_list' = db_list

\* ------------------------------------------------------------------------
\* Issuance on its own, with the inputs a form can hold
\* ------------------------------------------------------------------------

IssueSeats == SeatsInputs \cup { <<"0">>, <<"-", "1">>, <<"2">> }
IssueIssued ==
  IssuedInputs \cup { <<>>, <<"x">>, <<"2", "0", "2", "4", "-", "1", "0", "-", "0", "1">> }
IssueExpires ==
  ExpiresInputs \cup { <<"2", "0", "2", "3", "-", "1", "2", "-", "3", "1">>,
                       <<"2", "0", "2", "4", "-", "9", "-", "0", "1">> }
IssueNotes == NotesInputs \cup { <<>> }

NextIssue ==
  \/ \E customer \in CustomerInputs, product \in ProductInputs, seats_text \in IssueSeats,
        hwid \in HwidInputs, issued_at \in IssueIssued, expires_at \in IssueExpires,
        notes \in IssueNotes, key \in GeneratedKeys, nonce \in Nonces, path \in BOOLEAN,
        db_ok \in BOOLEAN :
       generate_license(customer, product, seats_text, hwid, issued_at, expires_at, notes,
                        key, nonce, path, db_ok)
  \/ \E secret_text \in SecretInputs, key_text \in KeyInputs,
        customer_text \in CustomerInputs, product_text \in ProductInputs,
        seats_text \in IssueSeats, issued_text \in IssueIssued,
        expires_text \in IssueExpires, notes_text \in IssueNotes, target \in BOOLEAN,
        db_enabled \in BOOLEAN, db_ok \in BOOLEAN :
       save_license(secret_text, key_text, customer_text, product_text, seats_text,
                    issued_text, expires_text, notes_text, target, db_enabled, db_ok)

SpecIssue == Init /\ [][NextIssue]_vars

\* ------------------------------------------------------------------------
\* The update check of App
\* ------------------------------------------------------------------------

\* What other handlers than those of the update check work on
rest == <<file, db, legacy_db, priv_key, pub_key, report, ctx, issued, nIssued, nTampered,
          nVerified, key_file, startup, enc, hw, msg, db_list>>

\* The number of manual checks the model lets run at once
MaxManual == 2

\* How a check ends: a newer release with a setup file, a newer release without
\* one, no newer release, status 404, another status, an exception of
\* requests.get or of response.json()
Outcomes == {"newer", "newer_no_setup", "latest", "http_404", "http_error", "exception"}

\* The callback that the try block of _check_for_updates hands to self.after(0, ..),
\* "" when it hands none
AfterCallback(outcome, manual) ==
  IF outcome = "newer" THEN "ask_to_update"
  ELSE IF outcome = "newer_no_setup" THEN "info_no_setup"
  ELSE IF ~manual THEN ""
  ELSE IF outcome = "latest" THEN "info_latest"
  ELSE IF outcome = "http_404" THEN "info_404"
  ELSE IF outcome = "http_error" THEN "error_status"
  ELSE "error_exception"

\* self.after(0, cb): the callbacks wait in the order they were handed over
After(queue, cb, by) == IF cb = "" THEN queue ELSE Append(queue, [cb |-> cb, by |-> by])

\* App.check_updates_thread, the command of the button, which a disabled button
\* does not run: the button is disabled and the thread of a manual check started
check_updates_thread ==
  /\ upd.alive
  /\ upd.btn = "normal"
  /\ Len(upd.manual) < MaxManual
  /\ upd' = [upd EXCEPT !.btn = "disabled", !.manual = Append(upd.manual, "request")]
  /\ UNCHANGED rest

\* The try block of _check_for_updates(manual=True) in the i-th thread
check_for_updates_manual(i, outcome) ==
  /\ upd.alive
  /\ i \in DOMAIN upd.manual
  /\ upd.manual[i] = "request"
  /\ upd' = [upd EXCEPT !.manual[i] = "finally",
                        !.queue = After(upd.queue, AfterCallback(outcome, TRUE), "manual")]
  /\ UNCHANGED rest

\* A finally block that hands nothing to the main loop
check_for_updates_finally_nothing(i) ==
  /\ upd.alive
  /\ i \in DOMAIN upd.manual
  /\ upd.manual[i] = "finally"
  /\ upd' = [upd EXCEPT !.manual = SubSeq(upd.manual, 1, i - 1)
                                    \o SubSeq(upd.manual, i + 1, Len(upd.manual))]
  /\ UNCHANGED rest

\* The finally block of _check_for_updates(manual=True), lines 221-223, after
\* which the thread ends
check_for_updates_finally(i) ==
  /\ upd.alive
  /\ i \in DOMAIN upd.manual
  /\ upd.manual[i] = "finally"
  /\ upd' = [upd EXCEPT !.manual = SubSeq(upd.manual, 1, i - 1)
                                    \o SubSeq(upd.manual, i + 1, Len(upd.manual)),
                        !.queue = After(upd.queue, "enable_button", "manual")]
  /\ UNCHANGED rest

\* _check_for_updates(manual=False), the thread of line 89: its finally block
\* does nothing
check_for_updates_silent(outcome) ==
  /\ upd.alive
  /\ upd.silent = "request"
  /\ upd' = [upd EXCEPT !.silent = "done",
                        !.queue = After(upd.queue, AfterCallback(outcome, FALSE), "silent")]
  /\ UNCHANGED rest

\* The main loop runs the callback that waits longest.  The dialogs serve the
\* events while they are open, so the callbacks behind them run as well.
run_callback ==
  /\ upd.alive
  /\ upd.queue # <<>>
  /\ LET cb == Head(upd.queue).cb IN
     upd' = [upd EXCEPT !.queue = Tail(upd.queue),
                        !.btn = IF cb = "enable_button" THEN "normal" ELSE upd.btn,
                        !.asking = upd.asking \/ cb = "ask_to_update",
                        !.dialog = IF cb = "enable_button" THEN upd.dialog ELSE cb]
  /\ UNCHANGED rest

\* _ask_to_update after askyesno: on yes _download_and_install, which ends with
\* self.destroy() or, when the download raises, with an error dialog
answer_update(yes, download_ok) ==
  /\ upd.alive
  /\ upd.asking
  /\ upd' = [upd EXCEPT !.asking = FALSE,
                        !.alive = ~(yes /\ download_ok),
                        !.dialog = IF ~yes THEN upd.dialog
                                   ELSE IF download_ok THEN "Update heruntergeladen"
                                   ELSE "Update-Fehler"]
  /\ UNCHANGED rest

\* The steps of the threads of the update checks
ThreadStep ==
  \/ \E i \in 1..MaxManual, outcome \in Outcomes : check_for_updates_manual(i, outcome)
  \/ \E i \in 1..MaxManual : check_for_updates_finally(i)
  \/ \E outcome \in Outcomes : check_for_updates_silent(outcome)

NextUpdate ==
  \/ check_updates_thread
  \/ ThreadStep
  \/ run_callback
  \/ \E yes \in BOOLEAN, download_ok \in BOOLEAN : answer_update(yes, download_ok)

SpecUpdate == Init /\ [][NextUpdate]_vars

\* requests.get has a timeout, so a thread goes on, and the main loop serves
\* the callbacks handed to it
SpecUpdateFair == SpecUpdate /\ WF_vars(ThreadStep) /\ WF_vars(run_callback)

\* The dialog with this title was shown
Shown(dialogs, title) == \E i \in DOMAIN dialogs : dialogs[i] = title

\* The fields of a license record
RecordFields ==
  {F_version, F_key, F_customer, F_product, F_seats, F_hwid, F_issued_at, F_expires_at, F_notes}

\* The date invariant of a record
DateInvariant(lic) ==
  LET i == Get(lic, F_issued_at, JAbsent)
      e == Get(lic, F_expires_at, JAbsent)
  IN
  /\ i.t = "str"
  /\ Strptime(i.s).ok
  /\ e.t = "str"
  /\ e.s # <<>> => (Strptime(e.s).ok /\ Strptime(i.s).date <= Strptime(e.s).date)

\* The algorithm tag of the algorithm that made a signature
AlgorithmUsed(sig) ==
  IF sig.d.alg = "ECDSA-P256" THEN ALG_ECDSA
  ELSE IF sig.d.alg = "HMAC-SHA256" THEN ALG_HMAC
  ELSE <<>>

(***************************************************************************)
(* What a verification displayed                                           *)
(***************************************************************************)

\* A verification ran to its end and displayed its result
Evaluated ==
  \/ report.app = "pro" /\ report.kind = "text"
  \/ report.app = "legacy" /\ report.kind = "result"

\* The verification was made by the application that issued the artifact
SameApplication == report.app = issued.app

ShowsSignatureValid ==
  \/ report.app = "pro" /\ report.status = "GUELTIG"
  \/ report.app = "legacy" /\ report.signatur_gueltig = "JA"

ShowsSignatureInvalid ==
  \/ report.app = "pro" /\ report.status = "UNGUELTIG"
  \/ report.app = "legacy" /\ report.signatur_gueltig = "NEIN"

ShowsExpired ==
  \/ report.app = "pro" /\ report.ablauf = "ABGELAUFEN"
  \/ report.app = "legacy" /\ report.abgelaufen = "JA"

ShowsHardwareMismatch == report.app = "pro" /\ report.hwid_check = "PC mismatch"

\* The verified record has an expiry date that lies strictly before the day of
\* the verification
ExpiredOn(lic, today) ==
  LET e == Get(lic, F_expires_at, JNone) IN
  /\ e.t = "str" /\ e.s # <<>>
  /\ Strptime(e.s).ok
  /\ Strptime(e.s).date < today

\* The verified record names a machine, and not the verifying one
HardwareDiffers(lic, machine) ==
  LET h == Get(lic, F_hwid, JNone) IN Truthy(h) /\ h # JStr(machine)

(***************************************************************************)
(* Properties                                                              *)
(***************************************************************************)

\* C1: the artifact that an issuance wrote, verified unchanged by the same
\* application with the same secret or key pair, is reported signature-valid.
C1_RoundTrip ==
  (/\ report.kind # "none"
   /\ SameApplication
   /\ ctx.doc = issued.doc
   /\ ctx.secret = issued.secret)
  => (Evaluated /\ ShowsSignatureValid)

\* C1 witness: App verified the artifact it issued for a customer with a character
\* outside ASCII, and reported it valid.
C1_Witness ==
  /\ report.app = "pro" /\ issued.app = "pro"
  /\ ctx.doc = issued.doc
  /\ Get(ctx.doc.license, F_customer, JNone) = JStr(<<"U+00E9", "\"">>)
  /\ report.status = "GUELTIG"

\* C2: after a change of a field of the issued record (value, type, added or
\* removed field), the signature left as issued, the issuing application's
\* verification reports the signature as invalid.
C2_RecordTamperRejected ==
  (/\ report.kind # "none"
   /\ SameApplication
   /\ report.app = "legacy" => ctx.secret = issued.secret
   /\ ctx.doc.hasLicense
   /\ ~SameRecord(ctx.doc.license, issued.doc.license)
   /\ ctx.doc.signature = issued.doc.signature)
  => (Evaluated /\ ShowsSignatureInvalid)

\* C3: a signature string that differs from the issued one in at least one
\* character, with the record as issued, is not reported valid.
C3_SignatureTamperRejected ==
  (/\ report.kind # "none"
   /\ issued.app # "none"
   /\ ctx.doc.license = issued.doc.license
   /\ ctx.doc.signature.t = "str"
   /\ ctx.doc.signature.s # issued.doc.signature.s)
  => ~ShowsSignatureValid

\* C4: a verification that found the signature invalid displays nothing that
\* comes from the record: no field, no expiry status, no hardware status.
C4_NothingReportedWhenInvalid ==
  (Evaluated /\ ~ctx.is_valid)
  => (/\ report.kunde = JAbsent /\ report.produkt = JAbsent
      /\ report.sitze = JAbsent /\ report.hwid = JAbsent
      /\ report.ablauf = "" /\ report.abgelaufen = ""
      /\ report.hwid_check = "")

\* C5: a validly signed artifact whose key the licenses table marks as revoked is
\* never shown as valid, expired or hardware-mismatched.
C5_RevokedNeverValid ==
  (Evaluated /\ report.app = "pro" /\ ctx.is_valid /\ ctx.revoked)
  => (report.status # "GUELTIG" /\ ~ShowsExpired /\ ~ShowsHardwareMismatch)

\* C6: for a validly signed, non-revoked record whose hwid is set and is not the
\* verifying machine, the hardware mismatch alone is the displayed status, also
\* when the record is expired.
C6_HardwareMismatchAlone ==
  (/\ Evaluated /\ report.app = "pro"
   /\ ctx.is_valid /\ ~ctx.revoked
   /\ HardwareDiffers(ctx.doc.license, ctx.machine))
  => (ShowsHardwareMismatch /\ report.status # "GUELTIG" /\ ~ShowsExpired)

\* C7: a validly signed, non-revoked, hardware-matching record is shown as
\* expired exactly when its expires_at is set and strictly before the current
\* date.
C7_ExpiryStrict ==
  (/\ Evaluated
   /\ ctx.is_valid /\ ~ctx.revoked
   /\ ~HardwareDiffers(ctx.doc.license, ctx.machine))
  => (ShowsExpired <=> ExpiredOn(ctx.doc.license, ctx.today))

\* C7 witness: a validly signed record whose expires_at is the current date was
\* verified on a matching machine and shown as not expired.
C7_Witness ==
  /\ Evaluated /\ report.app = "pro"
  /\ ctx.is_valid /\ ~ctx.revoked
  /\ ~HardwareDiffers(ctx.doc.license, ctx.machine)
  /\ Get(ctx.doc.license, F_expires_at, JNone).t = "str"
  /\ Strptime(Get(ctx.doc.license, F_expires_at, JNone).s) = [ok |-> TRUE, date |-> ctx.today]
  /\ report.ablauf = "Aktiv"

\* C8: the valid status is displayed only when the signature verifies, the key is
\* not revoked, hwid is empty or names the verifying machine, and expires_at is
\* empty or not before the current date.
C8_ValidOnlyWhenNothingElse ==
  (Evaluated /\ report.app = "pro" /\ report.status = "GUELTIG")
  => (/\ ctx.is_valid
      /\ ~ctx.revoked
      /\ ~HardwareDiffers(ctx.doc.license, ctx.machine)
      /\ ~ExpiredOn(ctx.doc.license, ctx.today))

\* C9: an artifact whose algorithm tag is missing or names no algorithm that any
\* verifier implements is rejected: it is never reported signature-valid.
C9_UnsupportedAlgorithmRejected ==
  (/\ report.kind # "none"
   /\ ctx.doc.exists
   /\ ctx.doc.algorithm \notin {JStr(ALG_HMAC), JStr(ALG_ECDSA)})
  => ~ShowsSignatureValid

\* C10: the signature of an artifact issued with HMAC-SHA256 is never reported
\* valid by App's ECDSA verification, whatever public key the artifact names, and
\* the signature of an artifact issued with ECDSA-P256 is never reported valid by
\* LicenseManagerApp's HMAC verification, whatever the secret.
C10_AlgorithmConfusionRejected ==
  (/\ report.kind # "none"
   /\ issued.app # "none"
   /\ report.app # issued.app
   /\ ctx.doc.signature = issued.doc.signature)
  => ~ShowsSignatureValid

\* C10 witness: App verified an artifact that carries the signature of an HMAC
\* issuance and a public key, and reported it invalid.
C10_Witness ==
  /\ report.app = "pro" /\ issued.app = "legacy"
  /\ ctx.doc.signature = issued.doc.signature
  /\ ctx.doc.license = issued.doc.license
  /\ ctx.doc.public_key = JStr(pub_key)
  /\ report.status = "UNGUELTIG"

\* C11: a verification of an artifact whose signature value is malformed (empty,
\* no base64, not ASCII, a number or null) or whose public key is malformed ends
\* with a displayed result, never with an exception or an error dialog.
C11_VerificationNeverRaises ==
  (/\ report.kind # "none"
   /\ SameApplication
   /\ report.app = "legacy" => ctx.secret # <<>>
   /\ ctx.doc.license = issued.doc.license
   /\ ctx.doc.signature.t # "absent")
  => report.kind \notin {"raised", "error"}

\* C12: a start never replaces or overwrites a persisted key pair: when
\* generator_keys.json holds a key pair, the start leaves the file as it is and
\* the application works with that pair.
C12_PersistedKeyPairKept ==
  [][GoodKeyFile(key_file)
       => /\ key_file' = key_file
          /\ priv_key' = key_file.private_key.s
          /\ pub_key' = key_file.public_key.s]_vars

\* C13: a start that finds a key file without a usable key pair reports a
\* key-format error and neither generates a fresh pair nor goes on silently.
C13_CorruptKeyMaterialEscalated ==
  (startup.n > 0 /\ startup.found.exists /\ ~GoodKeyFile(startup.found))
  => (startup.dialog = "KeyFormatError" /\ ~startup.generated)

\* C14: the canonical encoding does not depend on the order of the members: two
\* records with the same members and values have the same encoding, whose
\* members are in ascending order of their names and which has no whitespace.
C14_CanonicalOrderIndependent ==
  (enc.done /\ SameRecord(enc.a, enc.b))
  => /\ enc.out_a = enc.out_b
     /\ Loads(enc.out_a).ok
     /\ Ascending(EncodedNames(enc.out_a))
     /\ \A i \in 1..Len(enc.out_a) : ~IsSpace(enc.out_a[i])

C14_Witness ==
  /\ enc.done
  /\ enc.a # enc.b
  /\ SameRecord(enc.a, enc.b)
  /\ Names(enc.a) = {F_seats, F_notes}

\* C15: the canonical encoding is injective: two records that differ in a
\* member, in a value or in the type of a value have different encodings.
C15_CanonicalInjective ==
  (enc.done /\ ~SameRecord(enc.a, enc.b)) => enc.out_a # enc.out_b

C15_Witness ==
  /\ enc.done
  /\ Get(enc.a, F_seats, JAbsent) = JInt(5)
  /\ Get(enc.b, F_seats, JAbsent) = JStr(<<"5">>)
  /\ Get(enc.a, F_notes, JAbsent) = JAbsent
  /\ Get(enc.b, F_notes, JAbsent) = JStr(<<>>)

\* C16: every written artifact holds a record with all nine fields, the
\* optional ones (hwid, expires_at, notes) as a str, empty when unset.
C16_AllFieldsPresent ==
  issued.app # "none"
  => /\ Names(issued.doc.license) = RecordFields
     /\ \A f \in {F_hwid, F_expires_at, F_notes} : Get(issued.doc.license, f, JAbsent).t = "str"

\* C17: every record that is signed and written has a valid issued_at, an
\* expires_at that is empty or a valid date, and issued_at not after expires_at.
C17_DateInvariant == issued.app # "none" => DateInvariant(issued.doc.license)

\* C18: every record that is signed and written has a non-empty customer, a
\* non-empty product and an integer number of seats that is at least 1.
C18_CustomerProductSeats ==
  issued.app # "none"
  => /\ Truthy(Get(issued.doc.license, F_customer, JAbsent))
     /\ Truthy(Get(issued.doc.license, F_product, JAbsent))
     /\ Get(issued.doc.license, F_seats, JAbsent).t = "int"
     /\ Get(issued.doc.license, F_seats, JAbsent).n >= 1

\* C19: a written artifact has the algorithm tag of the algorithm that signed
\* it, the row stored for the license has the same tag, and the artifact has
\* a public_key exactly when the tag is ECDSA-P256.
C19_AlgorithmTagCarried ==
  issued.app # "none"
  => /\ file = issued.doc
     /\ file.algorithm = JStr(AlgorithmUsed(file.signature))
     /\ \A k \in LicenseKeys :
          /\ db[k].present => db[k].algorithm = file.algorithm.s
          /\ legacy_db[k].present => legacy_db[k].algorithm = file.algorithm.s
     /\ (file.public_key # JAbsent) <=> (file.algorithm.s = ALG_ECDSA)

C19_Witness ==
  /\ issued.app = "legacy"
  /\ file.algorithm = JStr(ALG_HMAC)
  /\ \E k \in LicenseKeys : legacy_db[k].present

\* C20: a verification changes nothing but what it displays: the artifact file
\* with its record, the key pair in memory and on disk and the tables of
\* licenses with their revocation flags are the same after it, whatever the
\* outcome.
C20_VerificationChangesNothing ==
  [][(nVerified' # nVerified \/ report' # report)
       => UNCHANGED <<file, db, legacy_db, priv_key, pub_key, key_file>>]_vars

C20_Witness ==
  /\ nVerified > 0
  /\ report.kind \in {"raised", "error"}
  /\ ctx.doc = file
  /\ \E k \in LicenseKeys : db[k].present \/ legacy_db[k].present

\* C21: an evaluation is a function of the artifact, the date, the machine and
\* the revocation state: what App.verify_license_ui has reported is what every
\* other evaluation of the same artifact reports, whatever key pair the
\* evaluating application holds.
C21_EvaluationDeterministic ==
  (report.app = "pro" /\ report.kind = "text")
  => \A k \in KeyPairIds :
       signature_check(ctx.doc, generate_key_pair(k).pub) = (report.status = "GUELTIG")

\* C22: get_hwid returns a fingerprint of 24 upper-case hexadecimal digits, and
\* when the identifiers of processor and disk cannot be obtained (the query
\* raises, or it finds no device) the fingerprint is the hash of the network
\* name of the machine.
C22_HwidFallsBackToNodeName ==
  hw.done
  => /\ hw.out.digits = 24
     /\ hw.out.upper
     /\ (hw.wmi = "raises" \/ (hw.cpus = <<>> /\ hw.disks = <<>>))
          => hw.out = Sha256Upper24(hw.node)

\* C23: the signature is checked with the public key the artifact embeds,
\* whatever key pair the verifying application holds: an artifact as issued is
\* reported valid by every verifier, one that embeds another key is reported
\* invalid by every verifier, and only an artifact without a public_key is
\* checked with the verifier's own key.
C23_EmbeddedKeyUsed ==
  [][(report' # report /\ report'.app = "pro" /\ issued.app = "pro" /\ AsIssuedButKey)
       => /\ file.public_key = issued.doc.public_key => report'.status = "GUELTIG"
          /\ (file.public_key.t = "str" /\ file.public_key # issued.doc.public_key)
               => report'.status = "UNGUELTIG"
          /\ file.public_key = JAbsent
               => (report'.status = "GUELTIG" <=> JStr(pub_key) = issued.doc.public_key)]_vars

C23_Witness ==
  /\ report.app = "pro"
  /\ report.status = "GUELTIG"
  /\ ctx.doc = issued.doc
  /\ file = issued.doc
  /\ JStr(pub_key) # ctx.doc.public_key
  /\ startup.n > 1

C25_NoPrivateKeyDisclosed ==
  /\ \A t \in OutputTexts :
       /\ ~Contains(t, priv_key)
       /\ issued.secret # <<>> => ~Contains(t, issued.secret)
       /\ ctx.secret # <<>> => ~Contains(t, ctx.secret)
  /\ file.exists => SignatureIsDigest(file.signature)
  /\ \A k \in LicenseKeys :
       /\ db[k].present => SignatureIsDigest(db[k].signature)
       /\ legacy_db[k].present => SignatureIsDigest(legacy_db[k].signature)

C25_Witness ==
  /\ msg = pub_key
  /\ issued.app = "pro"
  /\ file.public_key = JStr(pub_key)
  /\ report.status = "GUELTIG"
  /\ \E k \in LicenseKeys : db[k].present
\* C26: a click on a row's button writes the flag the button stood for when the
\* list was rendered, whatever the flag is now: after the write the stored flag
\* is that value, so a "Sperren" never leaves the license un-revoked, no other
\* row changes, and the list the operator sees after the click, when one could
\* be loaded, is the stored one.
C26_RevocationWritesAbsolute ==
  [][\A o \in Operators :
       /\ IsWrite(o) =>
            LET key == db_list'.click[o].key IN
            /\ db_list'.click[o].state = (db_list.view[o][key] = "Aktiv")
            /\ db'[key].is_revoked = db_list'.click[o].state
            /\ db' = [db EXCEPT ![key].is_revoked = db_list'.click[o].state]
       /\ IsRefresh(o) => db_list'.view[o] \in {get_all_licenses(db'), LoadError}]_vars

\* Operator 1 clicks "Sperren" on a row that operator 2 has revoked meanwhile
C26_Witness ==
  \E key \in LicenseKeys :
    /\ db_list.click[1] = [key |-> key, state |-> TRUE, running |-> TRUE]
    /\ db_list.click[2] = NoToggle
    /\ db_list.view[2][key] = "Gesperrt"
    /\ db_list.view[1][key] = "Aktiv"
    /\ db[key].is_revoked

\* C29: an issuance enters the license into the table only after it wrote the
\* artifact file: a step that creates a row is one that wrote the file; when
\* the save dialog is cancelled nothing is written; when the insert fails the
\* file stays as written, a warning is shown and the issuance is not undone.
C29_InsertAfterFileWritten ==
  [][/\ (db' # db \/ legacy_db' # legacy_db \/ issued' # issued \/ file' # file)
          => (file' = issued'.doc /\ nIssued' = nIssued + 1)
     /\ (nIssued' = nIssued + 1 /\ issued'.app = "pro"
           /\ ~Shown(issued'.dialogs, "Datenbankwarnung"))
          => LET row == db'[Get(issued'.doc.license, F_key, JNone).s] IN
             row.present /\ row.signature = SigText(issued'.doc.signature)
     /\ (nIssued' = nIssued + 1 /\ Shown(issued'.dialogs, "Datenbankwarnung"))
          => /\ db' = db
             /\ legacy_db' = legacy_db
             /\ file' = issued'.doc
             /\ \E i \in DOMAIN issued'.dialogs :
                  issued'.dialogs[i] \in {"Erfolg", "Gespeichert"}]_vars

\* App.generate_license wrote the file and the insert failed
C29_Witness ==
  /\ issued.app = "pro"
  /\ Shown(issued.dialogs, "Datenbankwarnung")
  /\ file = issued.doc
  /\ file # NoFile
  /\ \A k \in LicenseKeys : ~db[k].present

\* C30: a manual check disables the button when it starts; no two manual checks
\* run at once; the threads of the checks leave the button alone, and so do the
\* callbacks of the silent check; and a disabled button is enabled again
\* whatever the check finds, as long as the application runs.
C30_ButtonDisabledThenReenabled ==
  /\ [](Len(upd.manual) <= 1)
  /\ [](upd.manual # <<>> => upd.btn = "disabled")
  /\ [][/\ Len(upd'.manual) > Len(upd.manual) => upd'.btn = "disabled"
        /\ upd'.silent # upd.silent => upd'.btn = upd.btn
        /\ (upd'.queue # upd.queue /\ upd.queue # <<>> /\ upd'.queue = Tail(upd.queue)
              /\ Head(upd.queue).by = "silent") => upd'.btn = upd.btn]_vars
  /\ \A o \in Outcomes :
       (upd.btn = "disabled" /\ upd.manual = <<"finally">> /\ upd.dialog = "" /\ upd.queue # <<>>
          /\ upd.queue[Len(upd.queue)].cb = AfterCallback(o, TRUE))
       ~> (upd.btn = "normal" \/ ~upd.alive)
  /\ (upd.btn = "disabled") ~> (upd.btn = "normal" \/ ~upd.alive)

\* The button is enabled again after a manual check that ended with an exception
C30_Witness ==
  /\ upd.btn = "normal"
  /\ upd.dialog = "error_exception"
  /\ upd.manual = <<>>
  /\ upd.queue = <<>>
  /\ upd.alive

\* C27: after a start the application's public key is the public half of its
\* private key, whatever generator_keys.json held: also when the file has a
\* private key and no public key, or the public key of another pair.
C27_PublicKeyMatchesPrivateKey ==
  (startup.n > 0 /\ LoadPemPrivateKey(priv_key).ok)
  => pub_key = generate_key_pair(LoadPemPrivateKey(priv_key).id).pub

\* C28: an insert on a key the table has overwrites the fields, the algorithm
\* and the signature and keeps is_revoked; on a new key the row starts
\* un-revoked; no step but the write of a click changes a flag.
C28_InsertKeepsRevocation ==
  [][\A key \in LicenseKeys :
       /\ IsInsert(key) =>
            /\ db'[key].present
            /\ db'[key].is_revoked = (db[key].present /\ db[key].is_revoked)
            /\ db'[key].algorithm = ALG_ECDSA
            /\ db'[key].seats.n \in SharedSeats
            /\ db'[key].signature.d.key = PrivPem(MaxKeyPairs)
            /\ Get(Loads(db'[key].signature.d.msg).val, F_seats, JNone) = db'[key].seats
       /\ (db[key].present /\ db'[key].is_revoked # db[key].is_revoked)
            => \E o \in Operators : IsWrite(o) /\ db_list'.click[o].key = key]_vars

\* A revoked row got the fields and the signature of a second issuance
C28_Witness ==
  \E key \in LicenseKeys :
    /\ db[key].present
    /\ db[key].is_revoked
    /\ db[key].seats = JInt(2)
    /\ db[key].signature.d.key = PrivPem(MaxKeyPairs)
    /\ \E o \in Operators : db_list.view[o][key] = "Aktiv"

====
